---- MODULE Spec2Model ----
(***************************************************************************)
(* The CortenMM simulator: a page-table tree whose pages carry their own   *)
(* lock, stale flag and version (core.py), the address space with its      *)
(* lock-free descent, lock-and-validate, on-demand creation, detach and    *)
(* RCU reclaimer (addrspace.py), the range cursor (cursor.py) and the      *)
(* mapping operations built on it (syscalls.py).                           *)
(*                                                                         *)
(* Threads are preemptive: every action below is one atomic step of one    *)
(* thread, cut at each lock acquisition and at each shared read or write   *)
(* that another thread can observe.                                        *)
(***************************************************************************)
EXTENDS Integers, Sequences, FiniteSets, TLC

(* ------------------------------------------------------------------ *)
(* Program constants                                                   *)
(* ------------------------------------------------------------------ *)
PTES_PER_PAGE == 512
PAGE_SIZE == 4096
Levels == 4
max_retries == 10
\* time is counted in units of the default grace period (0.001 s)
grace_period == 1
InitialPfn == 4096

\* Python's None for a page reference, a lock owner and a frame number
NoPage == 0
NoThread == 0
NoPfn == -1
\* the value do_syscall_mmap and do_syscall_munmap return on failure
Failure == -1
\* a thread that has not returned from an operation yet
NoRet == -2

(* ------------------------------------------------------------------ *)
(* Bounds of the model                                                 *)
(* ------------------------------------------------------------------ *)
NumThreads == 2
\* operations the threads may start, all together, under Spec
MaxOps == 3
\* the clock stops here
MaxTime == 1
\* remove_page_table calls of the detaching thread under SpecRetry
RetryRemoves == 10
\* operations of the single caller under SpecSeq
MaxSeqOps == 6
\* operations of the single caller under SpecSpan
MaxSpanOps == 5
\* operations of the two callers under SpecCursor
MaxCursorOps == 3
\* operations of the two threads under SpecDfs
MaxDfsOps == 4
\* operations of the single caller under SpecFault
MaxFaultOps == 4
\* operations of all threads under SpecCreate
MaxCreateOps == 3
\* allocate_pfn calls under SpecAlloc
MaxAllocs == 6

Threads == 1..NumThreads
Root == 1

\* every page address the operations below can name: the first two pages of the
\* first leaf, its last page, and the first page of the second leaf
PageAddrs == {0, 4096, 2093056, 2097152}

(* ------------------------------------------------------------------ *)
(* Address arithmetic (core.py)                                        *)
(* ------------------------------------------------------------------ *)
\* parse_vaddr: the per-level indices of vaddr, highest level first
parse_vaddr(vaddr, levels) ==
    [k \in 1..levels |->
        ((vaddr \div PAGE_SIZE) \div (PTES_PER_PAGE ^ (levels - k))) % PTES_PER_PAGE]

\* v & ~0xFFF
AlignDown(v) == v - (v % PAGE_SIZE)
\* (v + 0xFFF) & ~0xFFF
AlignUp(v) == AlignDown(v + (PAGE_SIZE - 1))

\* indices[-1] as the cursor computes it (parse_vaddr with its default levels)
pte_index(vaddr) == parse_vaddr(vaddr, 4)[4]

UsedIdx == {parse_vaddr(a, Levels)[k] : a \in PageAddrs, k \in 1..Levels}

(* ------------------------------------------------------------------ *)
(* Page-table pages (core.py)                                          *)
(* ------------------------------------------------------------------ *)
EmptyPTE ==
    [pfn |-> NoPfn, present |-> FALSE, rw |-> FALSE, user |-> TRUE,
     accessed |-> FALSE, dirty |-> FALSE]

\* PTE.clear
ClearPTE(pte) ==
    [pte EXCEPT !.pfn = NoPfn, !.present = FALSE, !.rw = FALSE,
                !.accessed = FALSE, !.dirty = FALSE]

\* PTE.is_valid
is_valid(pte) == pte.present /\ pte.pfn # NoPfn

EmptyMeta == [status |-> "Invalid", soft_perm |-> 0, refcount |-> 0]

\* PageTablePage(level) with its PageDescriptor: lock free, not stale, version 0
NewPage(lvl) ==
    [level |-> lvl, is_stale |-> FALSE, version |-> 0, lock |-> NoThread,
     children |-> [i \in UsedIdx |-> NoPage],
     ptes |-> [i \in UsedIdx |-> EmptyPTE],
     meta |-> [i \in UsedIdx |-> EmptyMeta]]

\* a defer_free that enqueues the page without marking it
mark_stale_forgotten(pg, p) == pg

\* PageDescriptor.mark_stale
mark_stale(pg, p) == [pg EXCEPT ![p].is_stale = TRUE]

\* PageTablePage.set_child
set_child(pg, p, index, child) == [pg EXCEPT ![p].children[index] = child]

(* ------------------------------------------------------------------ *)
(* State                                                               *)
(* ------------------------------------------------------------------ *)
VARIABLES
    pages,           \* every PageTablePage created so far, by identity
    structure_lock,  \* AddrSpace.structure_lock: its holder or NoThread
    next_pfn,        \* AddrSpace.next_pfn
    queue,           \* RCUReclaimer.queue: <<timestamp, page>> in arrival order
    now,             \* time.time()
    cow_refcounts,   \* CortenMMSystem.cow_refcounts: pfn -> refcount
    th,              \* each thread's position and locals
    opsLeft          \* operations the threads may still start

vars == <<pages, structure_lock, next_pfn, queue, now, cow_refcounts, th, opsLeft>>

NoCursor == [vaddr_start |-> 0, vaddr_end |-> 0, locked_pages |-> <<>>, released |-> FALSE]

NoOp == [kind |-> "none", vaddr |-> 0, length |-> 0, arg |-> 0, deep |-> FALSE]

IdleThread ==
    [pc |-> "idle", op |-> NoOp, vaddr_start |-> 0, vaddr_end |-> 0,
     retry |-> 0, pt_page |-> NoPage, i |-> 0,
     cursor |-> NoCursor, status |-> "none", ret |-> NoRet, exc |-> "none",
     parent |-> NoPage, target |-> NoPage]

\* AddrSpace.__init__, RCUReclaimer.__init__, CortenMMSystem.__init__
InitState ==
    /\ pages = <<NewPage(Levels - 1)>>
    /\ structure_lock = NoThread
    /\ next_pfn = InitialPfn
    /\ queue = <<>>
    /\ now = 0
    /\ cow_refcounts = <<>>
    /\ th = [t \in Threads |-> IdleThread]

Init == InitState /\ opsLeft = MaxOps

(* ------------------------------------------------------------------ *)
(* The operations a thread can call                                    *)
(* ------------------------------------------------------------------ *)
\* arg is prot for mmap, is_write for a fault (Python's False = 0, True = 1),
\* and the queried address for a direct scope
Op(kind, vaddr, length, arg, deep) ==
    [kind |-> kind, vaddr |-> vaddr, length |-> length, arg |-> arg, deep |-> deep]

\* do_syscall_mmap, do_syscall_munmap, handle_page_fault, do_fork_cow on the
\* first page, and an mmap whose range spans the first two leaves
SyscallOps ==
    {Op("mmap", 0, PAGE_SIZE, 3, FALSE),
     Op("mmap", 2093056, 2 * PAGE_SIZE, 3, FALSE),
     Op("munmap", 0, PAGE_SIZE, 0, FALSE),
     Op("fault", 0, 0, 1, FALSE),
     Op("fork_cow", 0, PAGE_SIZE, 0, FALSE)}

\* with addr_space.lock(0, 0x1000, deep) as cursor: cursor.query(arg), as
\* example.py does, with an address inside and one outside the range
QueryOps ==
    {Op("query", 0, PAGE_SIZE, 0, FALSE),
     Op("query", 0, PAGE_SIZE, PAGE_SIZE, TRUE)}

\* remove_page_table on an address of the first leaf
RemoveOps == {Op("remove", 0, 0, 0, FALSE)}

AllOps == SyscallOps \cup QueryOps \cup RemoveOps

\* the operations of a direct scope, `with addr_space.lock(vaddr, vaddr +
\* length, deep) as cursor:` followed by one cursor call on the address arg
\* ("release_query" is cursor.release() and then cursor.query(arg), "map_ro" is
\* cursor.map(arg, pfn, writable=False), "mark_cow" is cursor.mark(Status.COW))
DirectKinds == {"query", "map", "unmap", "get", "release_query", "map_ro", "mark_cow"}

\* the range each operation passes to AddrSpace.lock
LockStart(o) ==
    IF o.kind \in DirectKinds THEN o.vaddr ELSE AlignDown(o.vaddr)
LockEnd(o) ==
    CASE o.kind \in DirectKinds -> o.vaddr + o.length
      [] o.kind = "fault" -> AlignDown(o.vaddr) + PAGE_SIZE
      [] OTHER -> AlignUp(AlignDown(o.vaddr) + o.length)

\* what each operation returns from its `except Exception` (False is 0); the
\* direct caller of lock() has no handler and returns nothing
FailValue(o) ==
    CASE o.kind \in {"mmap", "munmap"} -> Failure
      [] o.kind \in {"fault", "fork_cow"} -> 0
      [] OTHER -> NoRet

(* ------------------------------------------------------------------ *)
(* AddrSpace.lock (addrspace.py)                                       *)
(* ------------------------------------------------------------------ *)
\* the thread's locals at the top of one attempt of the retry loop
Attempt(r, n) ==
    [r EXCEPT !.pc = "ensure", !.retry = n, !.pt_page = NoPage]

\* the thread's locals once its operation has returned v, e being the exception
\* that ended it ("none" when it ran to its end)
Returned(r, v, e) ==
    [IdleThread EXCEPT !.pc = "done", !.op = r.op, !.status = r.status,
                       !.ret = v, !.exc = e]

\* the caller takes the result and is free to call again
Return(t) ==
    /\ th[t].pc = "done"
    /\ th' = [th EXCEPT ![t] = IdleThread]
    /\ UNCHANGED <<pages, structure_lock, next_pfn, queue, now, cow_refcounts, opsLeft>>

\* A thread calls an operation. The lock-taking ones enter lock(), which aligns
\* its range and starts the retry loop; remove_page_table goes for the
\* structural mutex.
StartOp(t, o) ==
    /\ th[t].pc = "idle"
    /\ opsLeft > 0
    /\ opsLeft' = opsLeft - 1
    /\ th' = [th EXCEPT ![t] =
                IF o.kind = "remove"
                THEN [IdleThread EXCEPT !.pc = "rm_wait", !.op = o]
                ELSE Attempt([IdleThread EXCEPT
                                !.op = o,
                                !.vaddr_start = AlignDown(LockStart(o)),
                                !.vaddr_end = AlignUp(LockEnd(o))], 0)]
    /\ UNCHANGED <<pages, structure_lock, next_pfn, queue, now, cow_refcounts>>

\* the descent of _ensure_leaf_page (and of _traverse_rcu) from page cur at
\* position i of indices: the leaf, or NoPage at the first absent link
RECURSIVE ensure_leaf_page(_, _, _, _)
ensure_leaf_page(pg, cur, i, indices) ==
    IF i > Levels - 1 THEN cur
    ELSE LET child == pg[cur].children[indices[i]]
         IN  IF child = NoPage THEN NoPage
             ELSE ensure_leaf_page(pg, child, i + 1, indices)

\* a walk that sends every caller to _create_leaf_page, leaf or no leaf
EnsureAlwaysCreate(t) ==
    /\ th[t].pc = "ensure"
    /\ th' = [th EXCEPT ![t].pc = "create_wait"]
    /\ UNCHANGED <<pages, structure_lock, next_pfn, queue, now, cow_refcounts, opsLeft>>

\* The unlocked descent, taken at its last read. A link to an interior page is
\* written once, by _create_leaf_page, and never cleared (remove_page_table
\* clears only the link to a leaf), so the earlier reads of the descent return
\* what they would return at the moment of the last one.
EnsureLeafPage(t) ==
    LET r == th[t]
        leaf == ensure_leaf_page(pages, Root, 1, parse_vaddr(r.vaddr_start, Levels))
    IN  /\ r.pc = "ensure"
        /\ th' = [th EXCEPT ![t] =
                    IF leaf = NoPage
                    THEN [r EXCEPT !.pc = "create_wait"]
                    ELSE [r EXCEPT !.pc = "lock_acquire", !.pt_page = leaf]]
        /\ UNCHANGED <<pages, structure_lock, next_pfn, queue, now, cow_refcounts, opsLeft>>

\* _create_leaf_page: with self.structure_lock
CreateAcquire(t) ==
    /\ th[t].pc = "create_wait"
    /\ structure_lock = NoThread
    /\ structure_lock' = t
    /\ th' = [th EXCEPT ![t].pc = "create"]
    /\ UNCHANGED <<pages, next_pfn, queue, now, cow_refcounts, opsLeft>>

\* CreateWalk with a page pool: an absent link gets the oldest page of the
\* reclaimer queue when there is one
RECURSIVE CreateWalkRecycle(_, _, _, _)
CreateWalkRecycle(pg, cur, i, indices) ==
    IF i > Levels - 1 THEN [pages |-> pg, leaf |-> cur]
    ELSE LET child == pg[cur].children[indices[i]]
         IN  IF child # NoPage THEN CreateWalkRecycle(pg, child, i + 1, indices)
             ELSE IF Len(queue) > 0
             THEN CreateWalkRecycle(set_child(pg, cur, indices[i], queue[1][2]),
                                    queue[1][2], i + 1, indices)
             ELSE CreateWalkRecycle(
                      set_child(Append(pg, NewPage(Levels - 2 - (i - 1))),
                                cur, indices[i], Len(pg) + 1),
                      Len(pg) + 1, i + 1, indices)

\* a _create_leaf_page without the re-check under the structural mutex: every
\* link of the path gets a new page, present or not
RECURSIVE CreateWalkOverwrite(_, _, _, _)
CreateWalkOverwrite(pg, cur, i, indices) ==
    IF i > Levels - 1 THEN [pages |-> pg, leaf |-> cur]
    ELSE CreateWalkOverwrite(
             set_child(Append(pg, NewPage(Levels - 2 - (i - 1))),
                       cur, indices[i], Len(pg) + 1),
             Len(pg) + 1, i + 1, indices)

\* a _create_leaf_page that re-checks the interior links but not the last
\* one: the leaf is always a new page
RECURSIVE CreateWalkNewLeaf(_, _, _, _)
CreateWalkNewLeaf(pg, cur, i, indices) ==
    IF i > Levels - 1 THEN [pages |-> pg, leaf |-> cur]
    ELSE LET child == pg[cur].children[indices[i]]
         IN  IF child # NoPage /\ i < Levels - 1
             THEN CreateWalkNewLeaf(pg, child, i + 1, indices)
             ELSE CreateWalkNewLeaf(
                      set_child(Append(pg, NewPage(Levels - 2 - (i - 1))),
                                cur, indices[i], Len(pg) + 1),
                      Len(pg) + 1, i + 1, indices)

\* the walk of _create_leaf_page from page cur at position i of indices: every
\* absent link on the path gets a new page; yields the pages and the leaf
RECURSIVE CreateWalk(_, _, _, _)
CreateWalk(pg, cur, i, indices) ==
    IF i > Levels - 1 THEN [pages |-> pg, leaf |-> cur]
    ELSE LET child == pg[cur].children[indices[i]]
         IN  IF child # NoPage THEN CreateWalk(pg, child, i + 1, indices)
             ELSE CreateWalk(
                      set_child(Append(pg, NewPage(Levels - 2 - (i - 1))),
                                cur, indices[i], Len(pg) + 1),
                      Len(pg) + 1, i + 1, indices)

\* a _create_leaf_page that returns with the structural mutex still held
CreateLeafPageKeepMutex(t) ==
    LET r == th[t]
        w == CreateWalk(pages, Root, 1, parse_vaddr(r.vaddr_start, Levels))
    IN  /\ r.pc = "create"
        /\ pages' = w.pages
        /\ th' = [th EXCEPT ![t] = [r EXCEPT !.pc = "lock_acquire", !.pt_page = w.leaf]]
        /\ UNCHANGED <<structure_lock, next_pfn, queue, now, cow_refcounts, opsLeft>>

\* the body of _create_leaf_page and the release of the structural mutex
CreateLeafPage(t) ==
    LET r == th[t]
        w == CreateWalk(pages, Root, 1, parse_vaddr(r.vaddr_start, Levels))
    IN  /\ r.pc = "create"
        /\ pages' = w.pages
        /\ structure_lock' = NoThread
        /\ th' = [th EXCEPT ![t] = [r EXCEPT !.pc = "lock_acquire", !.pt_page = w.leaf]]
        /\ UNCHANGED <<next_pfn, queue, now, cow_refcounts, opsLeft>>

\* _lock_and_validate: pt_page.descriptor.lock.acquire()
LockAcquire(t) ==
    LET r == th[t]
    IN  /\ r.pc = "lock_acquire"
        /\ pages[r.pt_page].lock = NoThread
        /\ pages' = [pages EXCEPT ![r.pt_page].lock = t]
        /\ th' = [th EXCEPT ![t].pc = "validate"]
        /\ UNCHANGED <<structure_lock, next_pfn, queue, now, cow_refcounts, opsLeft>>

\* a stale branch that returns False with the lock still held
ValidateFailKeepLock(pg, p) == pg

\* the stale branch of _lock_and_validate: release the lock it just took
ValidateFail(pg, p) == [pg EXCEPT ![p].lock = NoThread]

\* a retry loop that gives up one attempt early
RetriesExhaustedEarly(n) == n >= max_retries - 1

\* `for retry in range(max_retries)` has run out after n failed attempts
RetriesExhausted(n) == n >= max_retries

\* _dfs_lock_subtree from an already locked page: the page, then each existing
\* child in ascending index order with its own subtree
RECURSIVE dfs_lock_subtree(_, _)
RECURSIVE DfsChildren(_, _, _)
DfsChildren(pg, p, todo) ==
    IF todo = {} THEN <<>>
    ELSE LET i == CHOOSE x \in todo : \A y \in todo : x <= y
             child == pg[p].children[i]
         IN  (IF child = NoPage THEN <<>> ELSE dfs_lock_subtree(pg, child))
             \o DfsChildren(pg, p, todo \ {i})
dfs_lock_subtree(pg, p) ==
    <<p>> \o (IF pg[p].level = 0 THEN <<>> ELSE DfsChildren(pg, p, UsedIdx))

\* the check of is_stale under the lock, and what lock() does with the answer:
\* a stale page is unlocked and the loop goes on (or runs out and lock() raises,
\* which every caller but the direct one turns into its failure value); a live
\* page becomes the cursor's locked page
LockAndValidate(t) ==
    LET r == th[t]
        p == r.pt_page
        locked == IF r.op.deep THEN dfs_lock_subtree(pages, p) ELSE <<p>>
    IN  /\ r.pc = "validate"
        /\ IF pages[p].is_stale
           THEN /\ pages' = ValidateFail(pages, p)
                /\ th' = [th EXCEPT ![t] =
                            IF RetriesExhausted(r.retry + 1)
                            THEN [Returned(r, FailValue(r.op), "Failed to lock")
                                     EXCEPT !.retry = r.retry + 1]
                            ELSE Attempt(r, r.retry + 1)]
           ELSE /\ pages' = pages
                /\ th' = [th EXCEPT ![t] =
                            [r EXCEPT !.pc = "body",
                                      !.cursor = [vaddr_start |-> r.vaddr_start,
                                                  vaddr_end |-> r.vaddr_end,
                                                  locked_pages |-> locked,
                                                  released |-> FALSE]]]
        /\ UNCHANGED <<structure_lock, next_pfn, queue, now, cow_refcounts, opsLeft>>

(* ------------------------------------------------------------------ *)
(* RCursor (cursor.py)                                                 *)
(* ------------------------------------------------------------------ *)
\* `for pt_page, _ in self.locked_pages: if pt_page.is_leaf():` the first leaf
\* among the cursor's pages from position i on, NoPage when there is none
RECURSIVE FirstLeaf(_, _, _)
FirstLeaf(pg, lp, i) ==
    IF i > Len(lp) THEN NoPage
    ELSE IF pg[lp[i]].level = 0 THEN lp[i]
    ELSE FirstLeaf(pg, lp, i + 1)

\* a range check that lets every address through
InCursorRangeUnchecked(c, vaddr) == TRUE

\* the assert at the top of query, map, unmap and get_pte_and_metadata
InCursorRange(c, vaddr) == c.vaddr_start <= vaddr /\ vaddr < c.vaddr_end

\* RCursor.query, past its assert
query(pg, c, vaddr) ==
    LET leaf == FirstLeaf(pg, c.locked_pages, 1)
    IN  IF leaf = NoPage THEN "Invalid" ELSE pg[leaf].meta[pte_index(vaddr)].status

\* RCursor.map, past its assert, on a cursor that holds a leaf
map(pg, c, vaddr, pfn, writable) ==
    LET leaf == FirstLeaf(pg, c.locked_pages, 1)
        i == pte_index(vaddr)
    IN  [pg EXCEPT ![leaf].ptes[i] = [@ EXCEPT !.pfn = pfn, !.present = TRUE,
                                               !.rw = writable, !.user = TRUE],
                   ![leaf].meta[i] = [@ EXCEPT !.status = "Mapped",
                                               !.soft_perm = IF writable THEN 7 ELSE 5],
                   ![leaf].version = @ + 1]

\* a mark that writes the status and forgets soft_perm
RECURSIVE MarkPagesKeepPerm(_, _, _, _, _, _)
MarkPagesKeepPerm(pg, lp, k, i, status, soft_perm) ==
    IF k > Len(lp) THEN pg
    ELSE MarkPagesKeepPerm(
            IF pg[lp[k]].level = 0
            THEN [pg EXCEPT ![lp[k]].meta[i] = [@ EXCEPT !.status = status],
                            ![lp[k]].version = @ + 1]
            ELSE pg,
            lp, k + 1, i, status, soft_perm)

\* the inner loop of RCursor.mark for one address: every leaf the cursor holds
RECURSIVE MarkPages(_, _, _, _, _, _)
MarkPages(pg, lp, k, i, status, soft_perm) ==
    IF k > Len(lp) THEN pg
    ELSE MarkPages(
            IF pg[lp[k]].level = 0
            THEN [pg EXCEPT ![lp[k]].meta[i] = [@ EXCEPT !.status = status,
                                                         !.soft_perm = soft_perm],
                            ![lp[k]].version = @ + 1]
            ELSE pg,
            lp, k + 1, i, status, soft_perm)

\* RCursor.mark: the loop over the addresses of the range, from vaddr on
RECURSIVE mark(_, _, _, _, _)
mark(pg, c, vaddr, status, soft_perm) ==
    IF vaddr >= c.vaddr_end THEN pg
    ELSE mark(MarkPages(pg, c.locked_pages, 1, pte_index(vaddr), status, soft_perm),
              c, vaddr + PAGE_SIZE, status, soft_perm)

\* an unmap that clears the PTE and forgets the metadata
ClearEntryKeepStatus(pg, leaf, i) ==
    [pg EXCEPT ![leaf].ptes[i] = ClearPTE(@), ![leaf].version = @ + 1]

\* what unmap and unmap_range write into one entry of a leaf
ClearEntry(pg, leaf, i) ==
    [pg EXCEPT ![leaf].ptes[i] = ClearPTE(@),
               ![leaf].meta[i] = [@ EXCEPT !.status = "Invalid", !.soft_perm = 0,
                                           !.refcount = 0],
               ![leaf].version = @ + 1]

\* RCursor.unmap, past its assert, on a cursor that holds a leaf
unmap(pg, c, vaddr) ==
    ClearEntry(pg, FirstLeaf(pg, c.locked_pages, 1), pte_index(vaddr))

\* RCursor.unmap_range: the loop over the addresses of the range, from vaddr on;
\* the first leaf only, and only an entry that is not Invalid
RECURSIVE unmap_range(_, _, _)
unmap_range(pg, c, vaddr) ==
    IF vaddr >= c.vaddr_end THEN pg
    ELSE LET leaf == FirstLeaf(pg, c.locked_pages, 1)
             i == pte_index(vaddr)
         IN  unmap_range(
                IF leaf # NoPage /\ pg[leaf].meta[i].status # "Invalid"
                THEN ClearEntry(pg, leaf, i) ELSE pg,
                c, vaddr + PAGE_SIZE)

\* a release() that forgets the locks
ReleaseNothing(pg, lp, k) == pg

\* RCursor.release: the locks of the held pages, last acquired first, from
\* position k down
RECURSIVE ReleaseLocks(_, _, _)
ReleaseLocks(pg, lp, k) ==
    IF k = 0 THEN pg
    ELSE ReleaseLocks([pg EXCEPT ![lp[k]].lock = NoThread], lp, k - 1)

(* ------------------------------------------------------------------ *)
(* The mapping operations, inside their cursor scope (syscalls.py)     *)
(* ------------------------------------------------------------------ *)
\* self.cow_refcounts.get(pfn, 1)
CowGet(cow, pfn) == IF pfn \in DOMAIN cow THEN cow[pfn] ELSE 1

\* self.cow_refcounts[pfn] = v
CowSet(cow, pfn, v) ==
    [k \in (DOMAIN cow) \cup {pfn} |-> IF k = pfn THEN v ELSE cow[k]]

\* a COW write that copies the frame even when no other sharer is left
handle_cow_write_always_copy(pg, cow, npfn, c, vaddr) ==
    LET leaf == FirstLeaf(pg, c.locked_pages, 1)
        i == pte_index(vaddr)
        pte == pg[leaf].ptes[i]
        old_pfn == pte.pfn
        refcount == CowGet(cow, old_pfn)
    IN  IF leaf = NoPage \/ ~is_valid(pte)
        THEN [pages |-> pg, cow |-> cow, next_pfn |-> npfn, ret |-> 0]
        ELSE [pages |-> [map(pg, c, vaddr, npfn, TRUE)
                            EXCEPT ![leaf].meta[i] =
                                [@ EXCEPT !.status = "PrivateAnon", !.refcount = 1]],
              cow |-> CowSet(CowSet(cow, old_pfn, refcount - 1), npfn, 1),
              next_pfn |-> npfn + 1,
              ret |-> 1]

\* a COW copy that forgets to take the writer off the old frame's refcount
handle_cow_write_keep_old(pg, cow, npfn, c, vaddr) ==
    LET leaf == FirstLeaf(pg, c.locked_pages, 1)
        i == pte_index(vaddr)
        pte == pg[leaf].ptes[i]
        old_pfn == pte.pfn
        refcount == CowGet(cow, old_pfn)
    IN  IF leaf = NoPage \/ ~is_valid(pte)
        THEN [pages |-> pg, cow |-> cow, next_pfn |-> npfn, ret |-> 0]
        ELSE IF refcount > 1
        THEN [pages |-> [map(pg, c, vaddr, npfn, TRUE)
                            EXCEPT ![leaf].meta[i] =
                                [@ EXCEPT !.status = "PrivateAnon", !.refcount = 1]],
              cow |-> CowSet(cow, npfn, 1),
              next_pfn |-> npfn + 1,
              ret |-> 1]
        ELSE [pages |-> [pg EXCEPT ![leaf].ptes[i].rw = TRUE,
                                   ![leaf].meta[i] =
                                       [@ EXCEPT !.status = "PrivateAnon", !.refcount = 1]],
              cow |-> cow, next_pfn |-> npfn, ret |-> 1]

\* _handle_cow_write: the pages, the refcounts, the allocator's counter and the
\* returned value (True is 1, False is 0)
handle_cow_write(pg, cow, npfn, c, vaddr) ==
    LET leaf == FirstLeaf(pg, c.locked_pages, 1)
        i == pte_index(vaddr)
        pte == pg[leaf].ptes[i]
        old_pfn == pte.pfn
        refcount == CowGet(cow, old_pfn)
    IN  IF leaf = NoPage \/ ~is_valid(pte)
        THEN [pages |-> pg, cow |-> cow, next_pfn |-> npfn, ret |-> 0]
        ELSE IF refcount > 1
        THEN [pages |-> [map(pg, c, vaddr, npfn, TRUE)
                            EXCEPT ![leaf].meta[i] =
                                [@ EXCEPT !.status = "PrivateAnon", !.refcount = 1]],
              cow |-> CowSet(CowSet(cow, old_pfn, refcount - 1), npfn, 1),
              next_pfn |-> npfn + 1,
              ret |-> 1]
        ELSE [pages |-> [pg EXCEPT ![leaf].ptes[i].rw = TRUE,
                                   ![leaf].meta[i] =
                                       [@ EXCEPT !.status = "PrivateAnon", !.refcount = 1]],
              cow |-> cow, next_pfn |-> npfn, ret |-> 1]

\* a fault handler whose allocator hands out the same frame again
handle_page_fault_reuse(pg, cow, npfn, c, vaddr, is_write) ==
    LET leaf == FirstLeaf(pg, c.locked_pages, 1)
        i == pte_index(vaddr)
        status == query(pg, c, vaddr)
        same(v) == [pages |-> pg, cow |-> cow, next_pfn |-> npfn, ret |-> v]
    IN  CASE status = "PrivateAnon" ->
                [pages |-> map(pg, c, vaddr, npfn, TRUE), cow |-> cow,
                 next_pfn |-> npfn, ret |-> 1]
          [] status = "COW" ->
                IF ~is_write
                THEN same(IF is_valid(pg[leaf].ptes[i]) THEN 1 ELSE 0)
                ELSE handle_cow_write(pg, cow, npfn, c, vaddr)
          [] status = "Mapped" ->
                same(IF is_write /\ ~pg[leaf].ptes[i].rw THEN 0 ELSE 1)
          [] OTHER -> same(0)

\* a fault handler that answers a write to a read-only Mapped page by making
\* the PTE writable
handle_page_fault_upgrade(pg, cow, npfn, c, vaddr, is_write) ==
    LET leaf == FirstLeaf(pg, c.locked_pages, 1)
        i == pte_index(vaddr)
        status == query(pg, c, vaddr)
        same(v) == [pages |-> pg, cow |-> cow, next_pfn |-> npfn, ret |-> v]
    IN  CASE status = "PrivateAnon" ->
                [pages |-> map(pg, c, vaddr, npfn, TRUE), cow |-> cow,
                 next_pfn |-> npfn + 1, ret |-> 1]
          [] status = "COW" ->
                IF ~is_write
                THEN same(IF is_valid(pg[leaf].ptes[i]) THEN 1 ELSE 0)
                ELSE handle_cow_write(pg, cow, npfn, c, vaddr)
          [] status = "Mapped" ->
                IF is_write /\ ~pg[leaf].ptes[i].rw
                THEN [pages |-> [pg EXCEPT ![leaf].ptes[i].rw = TRUE], cow |-> cow,
                      next_pfn |-> npfn, ret |-> 1]
                ELSE same(1)
          [] OTHER -> same(0)

\* a fault handler that maps a PrivateAnon page with the permissions mmap
\* recorded: writable only with the write bit, soft_perm kept
handle_page_fault_by_prot(pg, cow, npfn, c, vaddr, is_write) ==
    LET leaf == FirstLeaf(pg, c.locked_pages, 1)
        i == pte_index(vaddr)
        status == query(pg, c, vaddr)
        prot == pg[leaf].meta[i].soft_perm
        same(v) == [pages |-> pg, cow |-> cow, next_pfn |-> npfn, ret |-> v]
    IN  CASE status = "PrivateAnon" ->
                [pages |-> [map(pg, c, vaddr, npfn, (prot \div 2) % 2 = 1)
                                EXCEPT ![leaf].meta[i].soft_perm = prot],
                 cow |-> cow, next_pfn |-> npfn + 1, ret |-> 1]
          [] status = "COW" ->
                IF ~is_write
                THEN same(IF is_valid(pg[leaf].ptes[i]) THEN 1 ELSE 0)
                ELSE handle_cow_write(pg, cow, npfn, c, vaddr)
          [] status = "Mapped" ->
                same(IF is_write /\ ~pg[leaf].ptes[i].rw THEN 0 ELSE 1)
          [] OTHER -> same(0)

\* the body of handle_page_fault under its cursor
handle_page_fault(pg, cow, npfn, c, vaddr, is_write) ==
    LET leaf == FirstLeaf(pg, c.locked_pages, 1)
        i == pte_index(vaddr)
        status == query(pg, c, vaddr)
        same(v) == [pages |-> pg, cow |-> cow, next_pfn |-> npfn, ret |-> v]
    IN  CASE status = "PrivateAnon" ->
                [pages |-> map(pg, c, vaddr, npfn, TRUE), cow |-> cow,
                 next_pfn |-> npfn + 1, ret |-> 1]
          [] status = "COW" ->
                IF ~is_write
                THEN same(IF is_valid(pg[leaf].ptes[i]) THEN 1 ELSE 0)
                ELSE handle_cow_write(pg, cow, npfn, c, vaddr)
          [] status = "Mapped" ->
                same(IF is_write /\ ~pg[leaf].ptes[i].rw THEN 0 ELSE 1)
          [] OTHER -> same(0)

\* a fork that downgrades the entry and counts the sharer in cow_refcounts but
\* leaves metadata.refcount as it was
RECURSIVE fork_cow_no_count(_, _, _, _, _)
fork_cow_no_count(pg, cow, c, vaddr, vaddr_end) ==
    IF vaddr >= vaddr_end THEN [pages |-> pg, cow |-> cow]
    ELSE LET leaf == FirstLeaf(pg, c.locked_pages, 1)
             i == pte_index(vaddr)
         IN  IF leaf # NoPage /\ is_valid(pg[leaf].ptes[i])
                /\ pg[leaf].meta[i].status = "Mapped"
             THEN LET pfn == pg[leaf].ptes[i].pfn
                      n == CowGet(cow, pfn) + 1
                  IN  fork_cow_no_count(
                          [pg EXCEPT ![leaf].meta[i] = [@ EXCEPT !.status = "COW"],
                                     ![leaf].ptes[i].rw = FALSE],
                          CowSet(cow, pfn, n), c, vaddr + PAGE_SIZE, vaddr_end)
             ELSE fork_cow_no_count(pg, cow, c, vaddr + PAGE_SIZE, vaddr_end)

\* the loop of do_fork_cow over the pages of the range, from vaddr on
RECURSIVE fork_cow(_, _, _, _, _)
fork_cow(pg, cow, c, vaddr, vaddr_end) ==
    IF vaddr >= vaddr_end THEN [pages |-> pg, cow |-> cow]
    ELSE LET leaf == FirstLeaf(pg, c.locked_pages, 1)
             i == pte_index(vaddr)
         IN  IF leaf # NoPage /\ is_valid(pg[leaf].ptes[i])
                /\ pg[leaf].meta[i].status = "Mapped"
             THEN LET pfn == pg[leaf].ptes[i].pfn
                      n == CowGet(cow, pfn) + 1
                  IN  fork_cow([pg EXCEPT ![leaf].meta[i] =
                                              [@ EXCEPT !.status = "COW", !.refcount = n],
                                          ![leaf].ptes[i].rw = FALSE],
                               CowSet(cow, pfn, n), c, vaddr + PAGE_SIZE, vaddr_end)
             ELSE fork_cow(pg, cow, c, vaddr + PAGE_SIZE, vaddr_end)

\* do_syscall_mmap inside its scope: cursor.mark(PrivateAnon, prot)
BodyMmap(t) ==
    LET r == th[t]
    IN  /\ r.pc = "body" /\ r.op.kind = "mmap"
        /\ pages' = mark(pages, r.cursor, r.cursor.vaddr_start, "PrivateAnon", r.op.arg)
        /\ th' = [th EXCEPT ![t] = [r EXCEPT !.pc = "release",
                                             !.ret = AlignDown(r.op.vaddr)]]
        /\ UNCHANGED <<structure_lock, next_pfn, queue, now, cow_refcounts, opsLeft>>

\* do_syscall_munmap inside its scope: cursor.unmap_range()
BodyMunmap(t) ==
    LET r == th[t]
    IN  /\ r.pc = "body" /\ r.op.kind = "munmap"
        /\ pages' = unmap_range(pages, r.cursor, r.cursor.vaddr_start)
        /\ th' = [th EXCEPT ![t] = [r EXCEPT !.pc = "release", !.ret = 0]]
        /\ UNCHANGED <<structure_lock, next_pfn, queue, now, cow_refcounts, opsLeft>>

\* handle_page_fault inside its scope
BodyFault(t) ==
    LET r == th[t]
        res == handle_page_fault(pages, cow_refcounts, next_pfn, r.cursor,
                                 r.op.vaddr, r.op.arg = 1)
    IN  /\ r.pc = "body" /\ r.op.kind = "fault"
        /\ pages' = res.pages
        /\ cow_refcounts' = res.cow
        /\ next_pfn' = res.next_pfn
        /\ th' = [th EXCEPT ![t] =
                    [r EXCEPT !.pc = "release", !.ret = res.ret,
                              !.status = query(pages, r.cursor, r.op.vaddr)]]
        /\ UNCHANGED <<structure_lock, queue, now, opsLeft>>

\* do_fork_cow inside its scope
BodyForkCow(t) ==
    LET r == th[t]
        res == fork_cow(pages, cow_refcounts, r.cursor, AlignDown(r.op.vaddr),
                        AlignUp(AlignDown(r.op.vaddr) + r.op.length))
    IN  /\ r.pc = "body" /\ r.op.kind = "fork_cow"
        /\ pages' = res.pages
        /\ cow_refcounts' = res.cow
        /\ th' = [th EXCEPT ![t] = [r EXCEPT !.pc = "release", !.ret = 1]]
        /\ UNCHANGED <<structure_lock, next_pfn, queue, now, opsLeft>>

\* a direct scope, `with addr_space.lock(...) as cursor: cursor.query(a)`: the
\* assert of query raises out of the scope when a is outside the cursor's range
BodyQuery(t) ==
    LET r == th[t]
    IN  /\ r.pc = "body" /\ r.op.kind = "query"
        /\ th' = [th EXCEPT ![t] =
                    IF InCursorRange(r.cursor, r.op.arg)
                    THEN [r EXCEPT !.pc = "release",
                                   !.status = query(pages, r.cursor, r.op.arg)]
                    ELSE [r EXCEPT !.pc = "release", !.exc = "AssertionError"]]
        /\ UNCHANGED <<pages, structure_lock, next_pfn, queue, now, cow_refcounts, opsLeft>>

(* ------------------------------------------------------------------ *)
(* Scope exit: the finally of lock()                                   *)
(* ------------------------------------------------------------------ *)
\* RCursor.release: nothing when already released; else every lock of
\* locked_pages, last first, then the list is cleared and the flag set
release(pg, c) ==
    IF c.released THEN [pages |-> pg, cursor |-> c]
    ELSE [pages |-> ReleaseLocks(pg, c.locked_pages, Len(c.locked_pages)),
          cursor |-> [c EXCEPT !.locked_pages = <<>>, !.released = TRUE]]

\* the finally of lock(): cursor.release()
Release(t) ==
    LET r == th[t]
        res == release(pages, r.cursor)
    IN  /\ r.pc = "release"
        /\ pages' = res.pages
        /\ th' = [th EXCEPT ![t] = [r EXCEPT !.pc = "reclaim", !.cursor = res.cursor]]
        /\ UNCHANGED <<structure_lock, next_pfn, queue, now, cow_refcounts, opsLeft>>

\* a direct scope with cursor.map(a, pfn): the caller passes the first frame
BodyMap(t) ==
    LET r == th[t]
    IN  /\ r.pc = "body" /\ r.op.kind = "map"
        /\ pages' = IF InCursorRange(r.cursor, r.op.arg)
                    THEN map(pages, r.cursor, r.op.arg, InitialPfn, TRUE)
                    ELSE pages
        /\ th' = [th EXCEPT ![t] =
                    IF InCursorRange(r.cursor, r.op.arg)
                    THEN [r EXCEPT !.pc = "release"]
                    ELSE [r EXCEPT !.pc = "release", !.exc = "AssertionError"]]
        /\ UNCHANGED <<structure_lock, next_pfn, queue, now, cow_refcounts, opsLeft>>

\* a direct scope with cursor.unmap(a)
BodyUnmap(t) ==
    LET r == th[t]
    IN  /\ r.pc = "body" /\ r.op.kind = "unmap"
        /\ pages' = IF InCursorRange(r.cursor, r.op.arg)
                    THEN unmap(pages, r.cursor, r.op.arg)
                    ELSE pages
        /\ th' = [th EXCEPT ![t] =
                    IF InCursorRange(r.cursor, r.op.arg)
                    THEN [r EXCEPT !.pc = "release"]
                    ELSE [r EXCEPT !.pc = "release", !.exc = "AssertionError"]]
        /\ UNCHANGED <<structure_lock, next_pfn, queue, now, cow_refcounts, opsLeft>>

\* a direct scope with cursor.get_pte_and_metadata(a): the caller keeps the
\* frame and the status of the pair it gets
BodyGet(t) ==
    LET r == th[t]
        leaf == FirstLeaf(pages, r.cursor.locked_pages, 1)
        i == pte_index(r.op.arg)
    IN  /\ r.pc = "body" /\ r.op.kind = "get"
        /\ th' = [th EXCEPT ![t] =
                    IF InCursorRange(r.cursor, r.op.arg)
                    THEN [r EXCEPT !.pc = "release",
                                   !.ret = pages[leaf].ptes[i].pfn,
                                   !.status = pages[leaf].meta[i].status]
                    ELSE [r EXCEPT !.pc = "release", !.exc = "AssertionError"]]
        /\ UNCHANGED <<pages, structure_lock, next_pfn, queue, now, cow_refcounts, opsLeft>>

\* a direct scope with cursor.map(a, pfn, writable=False)
BodyMapRo(t) ==
    LET r == th[t]
    IN  /\ r.pc = "body" /\ r.op.kind = "map_ro"
        /\ pages' = IF InCursorRange(r.cursor, r.op.arg)
                    THEN map(pages, r.cursor, r.op.arg, InitialPfn, FALSE)
                    ELSE pages
        /\ th' = [th EXCEPT ![t] =
                    IF InCursorRange(r.cursor, r.op.arg)
                    THEN [r EXCEPT !.pc = "release"]
                    ELSE [r EXCEPT !.pc = "release", !.exc = "AssertionError"]]
        /\ UNCHANGED <<structure_lock, next_pfn, queue, now, cow_refcounts, opsLeft>>

\* a direct scope with cursor.mark(Status.COW), soft_perm at its default
BodyMarkCow(t) ==
    LET r == th[t]
    IN  /\ r.pc = "body" /\ r.op.kind = "mark_cow"
        /\ pages' = mark(pages, r.cursor, r.cursor.vaddr_start, "COW", 7)
        /\ th' = [th EXCEPT ![t] = [r EXCEPT !.pc = "release"]]
        /\ UNCHANGED <<structure_lock, next_pfn, queue, now, cow_refcounts, opsLeft>>

\* a direct scope that calls cursor.release() itself
BodyRelease(t) ==
    LET r == th[t]
        res == release(pages, r.cursor)
    IN  /\ r.pc = "body" /\ r.op.kind = "release_query"
        /\ pages' = res.pages
        /\ th' = [th EXCEPT ![t] = [r EXCEPT !.pc = "released", !.cursor = res.cursor]]
        /\ UNCHANGED <<structure_lock, next_pfn, queue, now, cow_refcounts, opsLeft>>

\* and then cursor.query(a) on the released cursor, still inside the scope
BodyQueryReleased(t) ==
    LET r == th[t]
    IN  /\ r.pc = "released"
        /\ th' = [th EXCEPT ![t] =
                    IF InCursorRange(r.cursor, r.op.arg)
                    THEN [r EXCEPT !.pc = "release",
                                   !.status = query(pages, r.cursor, r.op.arg)]
                    ELSE [r EXCEPT !.pc = "release", !.exc = "AssertionError"]]
        /\ UNCHANGED <<pages, structure_lock, next_pfn, queue, now, cow_refcounts, opsLeft>>

\* a try_reclaim that empties the queue whatever the timestamps
try_reclaim_all(q, time) == <<>>

\* RCUReclaimer.try_reclaim: drop the entries at the head of the queue whose
\* grace period has passed
RECURSIVE try_reclaim(_, _)
try_reclaim(q, time) ==
    IF Len(q) > 0 /\ time - q[1][1] >= grace_period
    THEN try_reclaim(Tail(q), time)
    ELSE q

\* self.rcu_reclaimer.try_reclaim(), and the operation returns: its value, or
\* its failure value when an exception left the scope
Reclaim(t) ==
    LET r == th[t]
    IN  /\ r.pc = "reclaim"
        /\ queue' = try_reclaim(queue, now)
        /\ th' = [th EXCEPT ![t] =
                    Returned(r, IF r.exc = "none" THEN r.ret ELSE FailValue(r.op), r.exc)]
        /\ UNCHANGED <<pages, structure_lock, next_pfn, now, cow_refcounts, opsLeft>>

(* ------------------------------------------------------------------ *)
(* AddrSpace.remove_page_table and RCUReclaimer.defer_free             *)
(* ------------------------------------------------------------------ *)
\* with self.structure_lock
RemoveAcquire(t) ==
    /\ th[t].pc = "rm_wait"
    /\ structure_lock = NoThread
    /\ structure_lock' = t
    /\ th' = [th EXCEPT ![t].pc = "rm_walk"]
    /\ UNCHANGED <<pages, next_pfn, queue, now, cow_refcounts, opsLeft>>

\* `for i, index in enumerate(indices[:-2])`: the parent of the target, from
\* page cur at position i; NoPage when a link on the way is absent
RECURSIVE RemoveParent(_, _, _, _)
RemoveParent(pg, cur, i, indices) ==
    IF i > Levels - 2 THEN cur
    ELSE LET child == pg[cur].children[indices[i]]
         IN  IF child = NoPage THEN NoPage
             ELSE RemoveParent(pg, child, i + 1, indices)

\* indices[-2]
target_index(vaddr) == parse_vaddr(vaddr, Levels)[Levels - 1]

\* the walk to the parent and the read of the target; with nothing to remove
\* the call returns and the structural mutex is released
RemoveWalk(t) ==
    LET r == th[t]
        parent == RemoveParent(pages, Root, 1, parse_vaddr(r.op.vaddr, Levels))
        target == IF parent = NoPage THEN NoPage
                  ELSE pages[parent].children[target_index(r.op.vaddr)]
    IN  /\ r.pc = "rm_walk"
        /\ IF target = NoPage
           THEN /\ structure_lock' = NoThread
                /\ th' = [th EXCEPT ![t] = Returned(r, NoRet, "none")]
           ELSE /\ structure_lock' = structure_lock
                /\ th' = [th EXCEPT ![t] = [r EXCEPT !.pc = "rm_lock",
                                                     !.parent = parent,
                                                     !.target = target]]
        /\ UNCHANGED <<pages, next_pfn, queue, now, cow_refcounts, opsLeft>>

\* target.descriptor.lock.acquire()
RemoveLock(t) ==
    LET r == th[t]
    IN  /\ r.pc = "rm_lock"
        /\ pages[r.target].lock = NoThread
        /\ pages' = [pages EXCEPT ![r.target].lock = t]
        /\ th' = [th EXCEPT ![t].pc = "rm_unlink"]
        /\ UNCHANGED <<structure_lock, next_pfn, queue, now, cow_refcounts, opsLeft>>

\* a detach that leaves the parent's reference in place
DetachKeepLink(pg, parent, index) == pg

\* parent.set_child(target_index, None)
Detach(pg, parent, index) == set_child(pg, parent, index, NoPage)

RemoveUnlink(t) ==
    LET r == th[t]
    IN  /\ r.pc = "rm_unlink"
        /\ pages' = Detach(pages, r.parent, target_index(r.op.vaddr))
        /\ th' = [th EXCEPT ![t].pc = "rm_unlock"]
        /\ UNCHANGED <<structure_lock, next_pfn, queue, now, cow_refcounts, opsLeft>>

\* target.descriptor.lock.release()
RemoveUnlock(t) ==
    LET r == th[t]
    IN  /\ r.pc = "rm_unlock"
        /\ pages' = [pages EXCEPT ![r.target].lock = NoThread]
        /\ th' = [th EXCEPT ![t].pc = "rm_defer"]
        /\ UNCHANGED <<structure_lock, next_pfn, queue, now, cow_refcounts, opsLeft>>

\* self.rcu_reclaimer.defer_free(target): mark stale and enqueue with the time,
\* under the reclaimer's own lock; then remove_page_table returns and the
\* structural mutex is released
DeferFree(t) ==
    LET r == th[t]
    IN  /\ r.pc = "rm_defer"
        /\ pages' = mark_stale(pages, r.target)
        /\ queue' = Append(queue, <<now, r.target>>)
        /\ structure_lock' = NoThread
        /\ th' = [th EXCEPT ![t] = Returned(r, NoRet, "none")]
        /\ UNCHANGED <<next_pfn, now, cow_refcounts, opsLeft>>

(* ------------------------------------------------------------------ *)
(* Time and the specifications                                         *)
(* ------------------------------------------------------------------ *)
\* time.time() moves on; only the time that passes while the reclaimer holds a
\* page is ever compared
Tick ==
    /\ now < MaxTime
    /\ Len(queue) > 0
    /\ now' = now + 1
    /\ UNCHANGED <<pages, structure_lock, next_pfn, queue, cow_refcounts, th, opsLeft>>

LockSteps(t) ==
    \/ EnsureLeafPage(t)
    \/ CreateAcquire(t)
    \/ CreateLeafPage(t)
    \/ LockAcquire(t)
    \/ LockAndValidate(t)
    \/ Release(t)
    \/ Reclaim(t)

RemoveSteps(t) ==
    \/ RemoveAcquire(t)
    \/ RemoveWalk(t)
    \/ RemoveLock(t)
    \/ RemoveUnlink(t)
    \/ RemoveUnlock(t)
    \/ DeferFree(t)

Next ==
    \/ \E t \in Threads :
          \/ \E o \in AllOps : StartOp(t, o)
          \/ LockSteps(t)
          \/ BodyMmap(t)
          \/ BodyMunmap(t)
          \/ BodyFault(t)
          \/ BodyForkCow(t)
          \/ BodyQuery(t)
          \/ RemoveSteps(t)
          \/ Return(t)
    \/ Tick

\* any threads, any operations, preemptive scheduling
Spec == Init /\ [][Next]_vars

\* One thread calls one mapping operation while a second thread keeps calling
\* remove_page_table on the leaf it needs.
InitRetry == InitState /\ opsLeft = RetryRemoves + 1

NextRetry ==
    \/ \E o \in SyscallOps : StartOp(1, o)
    \/ LockSteps(1)
    \/ BodyMmap(1)
    \/ BodyMunmap(1)
    \/ BodyFault(1)
    \/ BodyForkCow(1)
    \/ \E o \in RemoveOps : StartOp(2, o)
    \/ RemoveSteps(2)
    \/ Return(2)
    \/ Tick

SpecRetry == InitRetry /\ [][NextRetry]_vars

\* One caller, one call after the other: any sequence of mmap, munmap,
\* handle_page_fault and do_fork_cow on the first two pages, with aligned and
\* unaligned addresses, both protections and both kinds of access.
SeqOps ==
    {Op("mmap", 0, 2 * PAGE_SIZE, 3, FALSE),
     Op("mmap", 0, PAGE_SIZE, 1, FALSE),
     Op("mmap", 2048, PAGE_SIZE, 3, FALSE),
     Op("mmap", 2093056, 2 * PAGE_SIZE, 3, FALSE),
     Op("munmap", 0, PAGE_SIZE, 0, FALSE),
     Op("fault", 0, 0, 1, FALSE),
     Op("fault", 2048, 0, 0, FALSE),
     Op("fault", 4096, 0, 1, FALSE),
     Op("fork_cow", 0, PAGE_SIZE, 0, FALSE)}

InitSeq == InitState /\ opsLeft = MaxSeqOps

NextSeq ==
    \/ \E o \in SeqOps : StartOp(1, o)
    \/ LockSteps(1)
    \/ BodyMmap(1)
    \/ BodyMunmap(1)
    \/ BodyFault(1)
    \/ BodyForkCow(1)
    \/ Return(1)

SpecSeq == InitSeq /\ [][NextSeq]_vars

\* The other sharer of a frame goes away between two calls of the caller: the
\* recorded refcount of the frame goes down by one.
DropSharer ==
    /\ \A t \in Threads : th[t].pc \in {"idle", "done"}
    /\ \E f \in DOMAIN cow_refcounts :
          /\ cow_refcounts[f] > 1
          /\ cow_refcounts' = CowSet(cow_refcounts, f, cow_refcounts[f] - 1)
    /\ UNCHANGED <<pages, structure_lock, next_pfn, queue, now, th, opsLeft>>

NextShare == NextSeq \/ DropSharer

\* the single caller of SpecSeq, with sharers that come and go
SpecShare == InitSeq /\ [][NextShare]_vars

\* example_concurrent_access: every thread runs worker(thread_id, base_addr,
\* num_pages) on a range of its own. The first two ranges share the first leaf,
\* the third lies in the second leaf.
WorkerRange(t) ==
    CASE t = 1 -> [base_addr |-> 0, num_pages |-> 2]
      [] t = 2 -> [base_addr |-> 2093056, num_pages |-> 1]
      [] OTHER -> [base_addr |-> (t - 2) * PTES_PER_PAGE * PAGE_SIZE, num_pages |-> 2]

\* the addresses worker's loop faults
WorkerPages(t) ==
    {WorkerRange(t).base_addr + i * PAGE_SIZE : i \in 0..(WorkerRange(t).num_pages - 1)}

\* the calls of all workers together
RECURSIVE WorkerCalls(_)
WorkerCalls(t) ==
    IF t = 0 THEN 0 ELSE 1 + WorkerRange(t).num_pages + WorkerCalls(t - 1)

InitDisjoint == InitState /\ opsLeft = WorkerCalls(NumThreads)

\* worker's first call: system.do_syscall_mmap(vaddr, length, prot=0b111)
WorkerMmap(t) ==
    StartOp(t, Op("mmap", WorkerRange(t).base_addr,
                  WorkerRange(t).num_pages * PAGE_SIZE, 7, FALSE))

\* worker's loop: system.handle_page_fault(addr, is_write=True) on the page
\* after the one of the call that has just returned
WorkerFault(t) ==
    LET r == th[t]
        addr == IF r.op.kind = "mmap" THEN WorkerRange(t).base_addr
                ELSE r.op.vaddr + PAGE_SIZE
        o == Op("fault", addr, 0, 1, FALSE)
    IN  /\ r.pc = "done"
        /\ addr \in WorkerPages(t)
        /\ opsLeft' = opsLeft - 1
        /\ th' = [th EXCEPT ![t] =
                    Attempt([IdleThread EXCEPT
                                !.op = o,
                                !.vaddr_start = AlignDown(LockStart(o)),
                                !.vaddr_end = AlignUp(LockEnd(o))], 0)]
        /\ UNCHANGED <<pages, structure_lock, next_pfn, queue, now, cow_refcounts>>

NextDisjoint ==
    \E t \in Threads :
        \/ WorkerMmap(t)
        \/ WorkerFault(t)
        \/ LockSteps(t)
        \/ BodyMmap(t)
        \/ BodyFault(t)

SpecDisjoint == InitDisjoint /\ [][NextDisjoint]_vars

(* ------------------------------------------------------------------ *)
(* AddrSpace.allocate_pfn, statement by statement                      *)
(* ------------------------------------------------------------------ *)
\* the threads inside `with self.pfn_lock`
InPfnLock == {t \in Threads : th[t].pc \in {"alloc_read", "alloc_incr", "alloc_exit"}}

\* an allocator without its mutex
PfnLockIgnored == TRUE

\* self.pfn_lock can be acquired
PfnLockFree == InPfnLock = {}

\* a thread calls allocate_pfn
AllocCall(t) ==
    /\ th[t].pc = "idle"
    /\ opsLeft > 0
    /\ opsLeft' = opsLeft - 1
    /\ th' = [th EXCEPT ![t] =
                [IdleThread EXCEPT !.pc = "alloc_wait",
                                   !.op = Op("allocate_pfn", 0, 0, 0, FALSE)]]
    /\ UNCHANGED <<pages, structure_lock, next_pfn, queue, now, cow_refcounts>>

\* with self.pfn_lock: the acquire
AllocAcquire(t) ==
    /\ th[t].pc = "alloc_wait"
    /\ PfnLockFree
    /\ th' = [th EXCEPT ![t].pc = "alloc_read"]
    /\ UNCHANGED <<pages, structure_lock, next_pfn, queue, now, cow_refcounts, opsLeft>>

\* pfn = self.next_pfn
AllocRead(t) ==
    /\ th[t].pc = "alloc_read"
    /\ th' = [th EXCEPT ![t] = [@ EXCEPT !.pc = "alloc_incr", !.ret = next_pfn]]
    /\ UNCHANGED <<pages, structure_lock, next_pfn, queue, now, cow_refcounts, opsLeft>>

\* self.next_pfn += 1
AllocIncr(t) ==
    /\ th[t].pc = "alloc_incr"
    /\ next_pfn' = next_pfn + 1
    /\ th' = [th EXCEPT ![t].pc = "alloc_exit"]
    /\ UNCHANGED <<pages, structure_lock, queue, now, cow_refcounts, opsLeft>>

\* return pfn, which leaves the with block and releases the mutex
AllocReturn(t) ==
    /\ th[t].pc = "alloc_exit"
    /\ th' = [th EXCEPT ![t] = Returned(th[t], th[t].ret, "none")]
    /\ UNCHANGED <<pages, structure_lock, next_pfn, queue, now, cow_refcounts, opsLeft>>

InitAlloc == InitState /\ opsLeft = MaxAllocs

NextAlloc ==
    \E t \in Threads :
        \/ AllocCall(t)
        \/ AllocAcquire(t)
        \/ AllocRead(t)
        \/ AllocIncr(t)
        \/ AllocReturn(t)
        \/ Return(t)

\* any threads, any number of allocate_pfn calls up to MaxAllocs
SpecAlloc == InitAlloc /\ [][NextAlloc]_vars

\* One caller working on both sides of the boundary between the first two
\* leaves: the last page of the first leaf, the first page of the second, and
\* ranges that span the two.
SpanOps ==
    {Op("mmap", 0, PAGE_SIZE, 3, FALSE),
     Op("mmap", 2093056, PAGE_SIZE, 3, FALSE),
     Op("mmap", 2097152, PAGE_SIZE, 3, FALSE),
     Op("fault", 0, 0, 1, FALSE),
     Op("fault", 2093056, 0, 1, FALSE),
     Op("fault", 2097152, 0, 1, FALSE),
     Op("fork_cow", 2097152, PAGE_SIZE, 0, FALSE),
     Op("fork_cow", 2093056, 2 * PAGE_SIZE, 0, FALSE),
     Op("munmap", 0, 2 * PAGE_SIZE, 0, FALSE),
     Op("munmap", 2097152, PAGE_SIZE, 0, FALSE),
     Op("munmap", 2093056, 2 * PAGE_SIZE, 0, FALSE)}

InitSpan == InitState /\ opsLeft = MaxSpanOps

NextSpan ==
    \/ \E o \in SpanOps : StartOp(1, o)
    \/ LockSteps(1)
    \/ BodyMmap(1)
    \/ BodyMunmap(1)
    \/ BodyFault(1)
    \/ BodyForkCow(1)
    \/ Return(1)

SpecSpan == InitSpan /\ [][NextSpan]_vars

\* Two threads open direct scopes on the first leaf and across the boundary to
\* the second, and call one cursor operation inside, with an address inside
\* or outside the range; mmap and a write fault provide entries to look at.
CursorOps ==
    {Op("mmap", 0, PAGE_SIZE, 3, FALSE),
     Op("fault", 0, 0, 1, FALSE),
     Op("query", 0, PAGE_SIZE, 0, FALSE),
     Op("query", 0, PAGE_SIZE, PAGE_SIZE, FALSE),
     Op("query", 2093056, 2 * PAGE_SIZE, 2097152, FALSE),
     Op("map", PAGE_SIZE, PAGE_SIZE, PAGE_SIZE, FALSE),
     Op("map", PAGE_SIZE, PAGE_SIZE, 0, FALSE),
     Op("unmap", 0, PAGE_SIZE, 0, FALSE),
     Op("unmap", PAGE_SIZE, PAGE_SIZE, 0, FALSE),
     Op("get", 0, PAGE_SIZE, 0, FALSE),
     Op("get", PAGE_SIZE, PAGE_SIZE, 0, FALSE),
     Op("release_query", 0, PAGE_SIZE, 0, FALSE),
     Op("release_query", 0, PAGE_SIZE, PAGE_SIZE, FALSE)}

InitCursor == InitState /\ opsLeft = MaxCursorOps

NextCursor ==
    \E t \in {1, 2} :
        \/ \E o \in CursorOps : StartOp(t, o)
        \/ LockSteps(t)
        \/ BodyMmap(t)
        \/ BodyFault(t)
        \/ BodyQuery(t)
        \/ BodyMap(t)
        \/ BodyUnmap(t)
        \/ BodyGet(t)
        \/ BodyRelease(t)
        \/ BodyQueryReleased(t)
        \/ Return(t)

SpecCursor == InitCursor /\ [][NextCursor]_vars

(* ------------------------------------------------------------------ *)
(* The deep lock from an interior page, statement by statement         *)
(* ------------------------------------------------------------------ *)
\* `for i in range(PTES_PER_PAGE)`: the index after i among those in use,
\* PTES_PER_PAGE when the loop is over
NextIdx(i) ==
    IF \E j \in UsedIdx : j > i
    THEN CHOOSE j \in UsedIdx : j > i /\ \A k \in UsedIdx : k > i => j <= k
    ELSE PTES_PER_PAGE

\* a release loop that walks locked_pages from the front
ForwardIndex(lp, n) == n + 1

\* `for pt_page, descriptor in reversed(self.locked_pages)`: the position in
\* locked_pages of the lock released after n others
ReversedIndex(lp, n) == Len(lp) - n

\* The deep lock of lock() taken from the parent of the leaf of vaddr, the
\* lowest interior page: pt_page is that page, found without locks.
DfsCall(t, o) ==
    LET parent == RemoveParent(pages, Root, 1, parse_vaddr(o.vaddr, Levels))
    IN  /\ th[t].pc = "idle"
        /\ opsLeft > 0
        /\ parent # NoPage
        /\ opsLeft' = opsLeft - 1
        /\ th' = [th EXCEPT ![t] =
                    [IdleThread EXCEPT !.pc = "dfs_lock", !.op = o,
                                       !.vaddr_start = AlignDown(o.vaddr),
                                       !.vaddr_end = AlignUp(o.vaddr + o.length),
                                       !.pt_page = parent]]
        /\ UNCHANGED <<pages, structure_lock, next_pfn, queue, now, cow_refcounts>>

\* _lock_and_validate(pt_page): the acquire
DfsLockAcquire(t) ==
    LET r == th[t]
    IN  /\ r.pc = "dfs_lock"
        /\ pages[r.pt_page].lock = NoThread
        /\ pages' = [pages EXCEPT ![r.pt_page].lock = t]
        /\ th' = [th EXCEPT ![t].pc = "dfs_validate"]
        /\ UNCHANGED <<structure_lock, next_pfn, queue, now, cow_refcounts, opsLeft>>

\* _lock_and_validate(pt_page): the check; then _dfs_lock_subtree(pt_page,
\* locked_pages) appends pt_page and starts its loop over the children
DfsValidate(t) ==
    LET r == th[t]
    IN  /\ r.pc = "dfs_validate"
        /\ IF pages[r.pt_page].is_stale
           THEN /\ pages' = ValidateFail(pages, r.pt_page)
                /\ th' = [th EXCEPT ![t] = Returned(r, NoRet, "Failed to lock")]
           ELSE /\ pages' = pages
                /\ th' = [th EXCEPT ![t] =
                            [r EXCEPT !.pc = "dfs_child", !.i = 0,
                                      !.cursor = [vaddr_start |-> r.vaddr_start,
                                                  vaddr_end |-> r.vaddr_end,
                                                  locked_pages |-> <<r.pt_page>>,
                                                  released |-> FALSE]]]
        /\ UNCHANGED <<structure_lock, next_pfn, queue, now, cow_refcounts, opsLeft>>

\* child = pt_page.get_child(i); past the last index the subtree is locked,
\* the cursor gets the pages and the scope calls cursor.release()
DfsChild(t) ==
    LET r == th[t]
        child == pages[r.pt_page].children[r.i]
    IN  /\ r.pc = "dfs_child"
        /\ th' = [th EXCEPT ![t] =
                    IF r.i >= PTES_PER_PAGE THEN [r EXCEPT !.pc = "dfs_release", !.i = 0]
                    ELSE IF child = NoPage THEN [r EXCEPT !.i = NextIdx(r.i)]
                    ELSE [r EXCEPT !.pc = "dfs_child_lock", !.target = child]]
        /\ UNCHANGED <<pages, structure_lock, next_pfn, queue, now, cow_refcounts, opsLeft>>

\* _lock_and_validate(child): the acquire
DfsChildAcquire(t) ==
    LET r == th[t]
    IN  /\ r.pc = "dfs_child_lock"
        /\ pages[r.target].lock = NoThread
        /\ pages' = [pages EXCEPT ![r.target].lock = t]
        /\ th' = [th EXCEPT ![t].pc = "dfs_child_validate"]
        /\ UNCHANGED <<structure_lock, next_pfn, queue, now, cow_refcounts, opsLeft>>

\* _lock_and_validate(child): the check. A live child, a leaf, is appended
\* and the loop goes on; a stale one is unlocked and _dfs_lock_subtree raises,
\* and the handler of lock() releases the pages locked so far.
DfsChildValidate(t) ==
    LET r == th[t]
        lp == r.cursor.locked_pages
    IN  /\ r.pc = "dfs_child_validate"
        /\ IF pages[r.target].is_stale
           THEN /\ pages' = ReleaseLocks(ValidateFail(pages, r.target), lp, Len(lp))
                /\ th' = [th EXCEPT ![t] =
                            Returned(r, NoRet, "Unexpected stale child while parent is locked")]
           ELSE /\ pages' = pages
                /\ th' = [th EXCEPT ![t] =
                            [r EXCEPT !.pc = "dfs_child", !.i = NextIdx(r.i),
                                      !.cursor.locked_pages = Append(lp, r.target)]]
        /\ UNCHANGED <<structure_lock, next_pfn, queue, now, cow_refcounts, opsLeft>>

\* cursor.release() called inside the scope, one descriptor.lock.release()
\* at a time; after the last one the list is cleared and the flag set, and
\* the scope ends
DfsRelease(t) ==
    LET r == th[t]
        lp == r.cursor.locked_pages
    IN  /\ r.pc = "dfs_release"
        /\ IF r.i < Len(lp)
           THEN /\ pages' = [pages EXCEPT ![lp[ReversedIndex(lp, r.i)]].lock = NoThread]
                /\ th' = [th EXCEPT ![t].i = r.i + 1]
           ELSE /\ pages' = pages
                /\ th' = [th EXCEPT ![t] =
                            [r EXCEPT !.pc = "release",
                                      !.cursor = [r.cursor EXCEPT !.locked_pages = <<>>,
                                                                  !.released = TRUE]]]
        /\ UNCHANGED <<structure_lock, next_pfn, queue, now, cow_refcounts, opsLeft>>

DfsSteps(t) ==
    \/ DfsLockAcquire(t)
    \/ DfsValidate(t)
    \/ DfsChild(t)
    \/ DfsChildAcquire(t)
    \/ DfsChildValidate(t)
    \/ DfsRelease(t)

\* the first thread maps a page in each of the first two leaves and takes the
\* deep lock of their parent; the second removes the first leaf and maps in it
DfsOps == {Op("dfs", 0, 2 * PTES_PER_PAGE * PAGE_SIZE, 0, TRUE)}
BuildOps ==
    {Op("mmap", 0, PAGE_SIZE, 3, FALSE),
     Op("mmap", PTES_PER_PAGE * PAGE_SIZE, PAGE_SIZE, 3, FALSE)}

InitDfs == InitState /\ opsLeft = MaxDfsOps

NextDfs ==
    \/ \E o \in BuildOps : StartOp(1, o)
    \/ \E o \in DfsOps : DfsCall(1, o)
    \/ DfsSteps(1)
    \/ \E o \in RemoveOps \cup {Op("mmap", 0, PAGE_SIZE, 3, FALSE)} : StartOp(2, o)
    \/ RemoveSteps(2)
    \/ \E t \in {1, 2} :
          \/ LockSteps(t)
          \/ BodyMmap(t)
          \/ Return(t)
    \/ Tick

SpecDfs == InitDfs /\ [][NextDfs]_vars

\* One caller and one page: the system calls, and direct scopes that put the
\* entry into the states the fault handler distinguishes, a read-only mapping
\* and a COW mark without a frame among them.
FaultOps ==
    {Op("mmap", 0, PAGE_SIZE, 3, FALSE),
     Op("munmap", 0, PAGE_SIZE, 0, FALSE),
     Op("fork_cow", 0, PAGE_SIZE, 0, FALSE),
     Op("map_ro", 0, PAGE_SIZE, 0, FALSE),
     Op("mark_cow", 0, PAGE_SIZE, 0, FALSE),
     Op("fault", 0, 0, 0, FALSE),
     Op("fault", 0, 0, 1, FALSE),
     Op("fault", 2048, 0, 1, FALSE)}

InitFault == InitState /\ opsLeft = MaxFaultOps

NextFault ==
    \/ \E o \in FaultOps : StartOp(1, o)
    \/ LockSteps(1)
    \/ BodyMmap(1)
    \/ BodyMunmap(1)
    \/ BodyForkCow(1)
    \/ BodyMapRo(1)
    \/ BodyMarkCow(1)
    \/ BodyFault(1)
    \/ Return(1)

SpecFault == InitFault /\ [][NextFault]_vars

\* Threads race for the second leaf, which does not exist at first, while the
\* first leaf is created and removed.
SecondLeaf == PTES_PER_PAGE * PAGE_SIZE
CreateOps ==
    {Op("mmap", 0, PAGE_SIZE, 3, FALSE),
     Op("remove", 0, 0, 0, FALSE),
     Op("mmap", SecondLeaf, PAGE_SIZE, 3, FALSE),
     Op("fault", SecondLeaf, 0, 1, FALSE)}

InitCreate == InitState /\ opsLeft = MaxCreateOps

NextCreate ==
    \/ \E t \in Threads :
          \/ \E o \in CreateOps : StartOp(t, o)
          \/ LockSteps(t)
          \/ BodyMmap(t)
          \/ BodyFault(t)
          \/ RemoveSteps(t)
          \/ Return(t)
    \/ Tick

SpecCreate == InitCreate /\ [][NextCreate]_vars

\* The system calls and remove_page_table under a fair scheduler: a thread
\* that can take a step of its call is not held back for ever. Once inside
\* pfn_lock or the reclaimer's lock a thread waits for nothing (allocate_pfn,
\* defer_free and try_reclaim acquire no other lock), so each of these
\* critical sections is one step of the operation that contains it.
CallSteps(t) ==
    \/ LockSteps(t)
    \/ BodyMmap(t)
    \/ BodyMunmap(t)
    \/ BodyFault(t)
    \/ BodyForkCow(t)
    \/ RemoveSteps(t)

NextLive ==
    \/ \E t \in Threads :
          \/ \E o \in SyscallOps \cup RemoveOps : StartOp(t, o)
          \/ CallSteps(t)
          \/ Return(t)
    \/ Tick

SpecLive == Init /\ [][NextLive]_vars /\ \A t \in Threads : WF_vars(CallSteps(t))

\* example_basic_operations for an address a: mmap(a, 4096, RW), a write fault
\* on a, munmap(a, 4096), and a query of a under a cursor of its own
RoundTrip(a) ==
    <<Op("mmap", a, PAGE_SIZE, 3, FALSE),
      Op("fault", a, 0, 1, FALSE),
      Op("munmap", a, PAGE_SIZE, 0, FALSE),
      Op("query", a, PAGE_SIZE, a, FALSE)>>

\* the addresses of the round trip: page starts and addresses inside a page,
\* in the first leaf and in the second
RoundAddrs == {0, 2048, 4096, 6000, 2093056, 2097152, 2097153}

InitRound == InitState /\ opsLeft = Len(RoundTrip(0))

\* the caller's first call
RoundFirst(t) ==
    /\ opsLeft = Len(RoundTrip(0))
    /\ \E a \in RoundAddrs : StartOp(t, RoundTrip(a)[1])

\* the caller's next call, on the address of the call that has just returned
RoundThen(t) ==
    LET a == th[t].op.vaddr
        o == RoundTrip(a)[Len(RoundTrip(a)) - opsLeft + 1]
    IN  /\ th[t].pc = "done"
        /\ opsLeft > 0
        /\ opsLeft' = opsLeft - 1
        /\ th' = [th EXCEPT ![t] =
                    Attempt([IdleThread EXCEPT
                                !.op = o,
                                !.vaddr_start = AlignDown(LockStart(o)),
                                !.vaddr_end = AlignUp(LockEnd(o))], 0)]
        /\ UNCHANGED <<pages, structure_lock, next_pfn, queue, now, cow_refcounts>>

NextRound ==
    \/ RoundFirst(1)
    \/ RoundThen(1)
    \/ LockSteps(1)
    \/ BodyMmap(1)
    \/ BodyMunmap(1)
    \/ BodyFault(1)
    \/ BodyQuery(1)

SpecRound == InitRound /\ [][NextRound]_vars

(* ------------------------------------------------------------------ *)
(* Vocabulary of the properties                                        *)
(* ------------------------------------------------------------------ *)
PageIds == 1..Len(pages)

\* the thread is inside a cursor scope: from the yield of lock() up to the
\* release in its finally
InScope(t) == th[t].pc \in {"body", "release"}

\* the descriptor locks thread t holds
HeldBy(t) == {p \in PageIds : pages[p].lock = t}

\* the leaf the tree holds for address a, NoPage when there is none
LeafFor(a) == ensure_leaf_page(pages, Root, 1, parse_vaddr(a, Levels))

\* the pages linked into the tree
Linked == {pages[q].children[i] : q \in PageIds, i \in UsedIdx} \ {NoPage}

\* the page addresses of [s, e)
RangePages(s, e) == {s + k * PAGE_SIZE : k \in 0..(((e - s) \div PAGE_SIZE) - 1)}

StalePages == {p \in PageIds : pages[p].is_stale}

\* the ranges of two cursors share a page
Overlap(c, d) == c.vaddr_start < d.vaddr_end /\ d.vaddr_start < c.vaddr_end

\* the leaf pages among pg
LeafPagesOf(pg) == {p \in 1..Len(pg) : pg[p].level = 0}

\* the leaf a descent for address a reaches in pg, NoPage when there is none
TreeLeaf(pg, a) == ensure_leaf_page(pg, Root, 1, parse_vaddr(a, Levels))

\* what a query of a under a cursor of its own reads in pg: the status of the
\* entry of a, Invalid for an entry that was never written
StatusAt(pg, a) ==
    IF TreeLeaf(pg, a) = NoPage THEN "Invalid"
    ELSE pg[TreeLeaf(pg, a)].meta[pte_index(a)].status

\* the entries of pg whose PTE points to frame f
SharersOf(pg, f) ==
    {e \in LeafPagesOf(pg) \X UsedIdx : pg[e[1]].ptes[e[2]].pfn = f}

\* the sum of metadata.refcount over the entries es of pg
RECURSIVE SumRefcount(_, _)
SumRefcount(pg, es) ==
    IF es = {} THEN 0
    ELSE LET e == CHOOSE x \in es : TRUE
         IN  pg[e[1]].meta[e[2]].refcount + SumRefcount(pg, es \ {e})

\* thread t takes the step that runs the body of its operation of this kind
BodyStep(t, kind) ==
    /\ th[t].pc = "body"
    /\ th[t].op.kind = kind
    /\ th'[t].pc = "release"

\* the edges of the status state machine
StatusEdges ==
    {<<"Invalid", "PrivateAnon">>, <<"Invalid", "Mapped">>,
     <<"PrivateAnon", "Mapped">>, <<"Mapped", "COW">>, <<"COW", "PrivateAnon">>,
     <<"Mapped", "Invalid">>, <<"PrivateAnon", "Invalid">>, <<"COW", "Invalid">>}

(* ------------------------------------------------------------------ *)
(* Properties                                                          *)
(* ------------------------------------------------------------------ *)

\* C1: a cursor returned by lock() holds the descriptor lock of the leaf that
\* covers each page of its aligned range, whether the range lies inside one
\* leaf or spans several.
C1_CursorLocksEveryLeaf ==
    \A t \in Threads :
        th[t].pc = "body" =>
            \A a \in RangePages(th[t].cursor.vaddr_start, th[t].cursor.vaddr_end) :
                \E k \in 1..Len(th[t].cursor.locked_pages) :
                    /\ th[t].cursor.locked_pages[k] = LeafFor(a)
                    /\ pages[LeafFor(a)].lock = t

\* C2: two cursor scopes whose ranges overlap are serialized: they are never
\* open at the same time, so the reads and writes of one on the shared range
\* all come before or all come after those of the other.
C2_OverlappingScopesSerialized ==
    \A t, u \in Threads :
        (t # u /\ InScope(t) /\ InScope(u)) => ~Overlap(th[t].cursor, th[u].cursor)

\* C3: no step changes a PTE or a metadata slot of a page that is stale; an
\* entry changes only while the page's lock is held and the page is not stale.
C3_NoMutationOfStalePage ==
    [][\A p \in PageIds :
          (pages'[p].ptes # pages[p].ptes \/ pages'[p].meta # pages[p].meta) =>
              (~pages[p].is_stale /\ pages[p].lock # NoThread)]_vars

\* C4: is_stale is set on a page only by a thread that holds that page's
\* descriptor lock at the moment of the write.
C4_StaleSetUnderLock ==
    [][\A t \in Threads :
          (th[t].pc = "rm_defer" /\ pages'[th[t].target].is_stale
              /\ ~pages[th[t].target].is_stale)
          => pages[th[t].target].lock = t]_vars

\* C5: a page leaves the reclaimer queue only when no cursor scope holds its
\* lock: a scope that got hold of a detached page ends before the page is
\* reclaimed.
C5_NoReclaimUnderCursor ==
    [][\A i \in 1..Len(queue) :
          (\A j \in 1..Len(queue') : queue'[j] # queue[i]) =>
              \A t \in Threads :
                  InScope(t) =>
                      \A k \in 1..Len(th[t].cursor.locked_pages) :
                          th[t].cursor.locked_pages[k] # queue[i][2]]_vars

\* C6: is_stale never goes back to false, and no step installs a stale page
\* as the child of any page.
C6_StaleMonotonicNeverReinstalled ==
    [][\A p \in PageIds :
          pages[p].is_stale =>
              /\ pages'[p].is_stale
              /\ \A q \in 1..Len(pages') : \A i \in UsedIdx :
                    pages'[q].children[i] = p =>
                        (q \in PageIds /\ pages[q].children[i] = p)]_vars

\* a stale leaf has been replaced: the tree holds a live leaf for its address
C6_Witness ==
    \E p \in StalePages : LeafFor(0) # NoPage /\ LeafFor(0) # p

\* C7: once remove_page_table has returned, the detached leaf is not linked
\* into the tree, and every descent made from then on yields another, live
\* page; a page enters the tree with every entry Invalid and no PTE set.
C7_DetachedUnreachable ==
    /\ [](\A p \in StalePages : p \notin Linked)
    /\ [][\A t \in Threads :
             (th'[t].pt_page # th[t].pt_page /\ th'[t].pt_page # NoPage) =>
                 /\ th'[t].pt_page \notin StalePages
                 /\ ~pages'[th'[t].pt_page].is_stale]_vars
    /\ [][\A p \in 1..Len(pages') :
             p \notin PageIds =>
                 \A i \in UsedIdx : /\ pages'[p].meta[i] = EmptyMeta
                                    /\ pages'[p].ptes[i] = EmptyPTE]_vars

\* a scope opened on the replacement of a detached leaf reads Invalid
C7_Witness ==
    \E t \in Threads : \E p \in StalePages :
        /\ th[t].pc = "body"
        /\ th[t].pt_page > p
        /\ th[t].pt_page = LeafFor(0)
        /\ pages[p].meta[0].status # "Invalid"
        /\ query(pages, th[t].cursor, 0) = "Invalid"

\* C8: whichever way a cursor scope ends, the thread holds no descriptor lock
\* once the release has run, and it goes through try_reclaim before the
\* operation returns.
C8_ScopeExitReleases ==
    /\ [](\A t \in Threads :
            th[t].pc \in {"reclaim", "done", "idle"} =>
                (HeldBy(t) = {} /\ th[t].cursor.locked_pages = <<>>))
    /\ [][\A t \in Threads :
             (InScope(t) /\ th'[t].pc # th[t].pc) =>
                 th'[t].pc \in {"release", "reclaim"}]_vars

\* a scope left by an exception has released its lock
C8_Witness ==
    \E t \in Threads :
        /\ th[t].pc = "reclaim"
        /\ th[t].exc = "AssertionError"
        /\ th[t].cursor.released

\* C9: a thread that is about to wait for the structural mutex holds no
\* descriptor lock.
C9_StructureLockFirst ==
    \A t \in Threads :
        th[t].pc \in {"create_wait", "rm_wait"} => HeldBy(t) = {}

\* a thread goes for the structural mutex right after a failed validation
C9_Witness ==
    \E t \in Threads : th[t].pc = "create_wait" /\ th[t].retry > 0

\* C10: lock() fails only after max_retries attempts that each met a stale
\* leaf, no attempt leaving a lock behind, and the operation then returns its
\* failure value: -1 for mmap and munmap, False for a fault and fork-COW.
C10_LockFailure ==
    \A t \in Threads :
        /\ th[t].pc \in {"ensure", "create_wait", "create", "lock_acquire"} =>
                HeldBy(t) = {}
        /\ th[t].exc = "Failed to lock" =>
                /\ th[t].retry = 10
                /\ Cardinality(StalePages) >= 10
                /\ HeldBy(t) = {}
                /\ th[t].op.kind \in {"mmap", "munmap"} => th[t].ret = -1
                /\ th[t].op.kind \in {"fault", "fork_cow"} => th[t].ret = 0

\* an mmap has returned -1 because lock() gave up
C10_Witness ==
    \E t \in Threads :
        /\ th[t].pc = "done"
        /\ th[t].op.kind = "mmap"
        /\ th[t].exc = "Failed to lock"
        /\ th[t].ret = -1

\* C11: in every state every leaf entry with PTE.present has status Mapped or
\* COW, and every entry with status PrivateAnon has PTE.present false.
C11_PresentMatchesStatus ==
    \A p \in LeafPagesOf(pages) : \A i \in UsedIdx :
        /\ pages[p].ptes[i].present => pages[p].meta[i].status \in {"Mapped", "COW"}
        /\ pages[p].meta[i].status = "PrivateAnon" => ~pages[p].ptes[i].present

\* C12: in every state, for every frame with a recorded COW refcount, the sum
\* of metadata.refcount over the entries whose PTE points to the frame equals
\* that recorded refcount.
C12_RefcountSumMatches ==
    \A f \in DOMAIN cow_refcounts :
        SumRefcount(pages, SharersOf(pages, f)) = cow_refcounts[f]

\* C13: right after do_fork_cow has gone over a Mapped entry with frame f, the
\* sum of metadata.refcount over the entries whose PTE holds f equals the
\* recorded refcount of f.
C13_ForkCowRefcount ==
    [][\A t \in Threads :
          BodyStep(t, "fork_cow") =>
              \A a \in RangePages(th[t].cursor.vaddr_start, th[t].cursor.vaddr_end) :
                  LET leaf == FirstLeaf(pages, th[t].cursor.locked_pages, 1)
                      i == pte_index(a)
                      f == pages[leaf].ptes[i].pfn
                  IN  (is_valid(pages[leaf].ptes[i])
                          /\ pages[leaf].meta[i].status = "Mapped") =>
                          /\ f \in DOMAIN cow_refcounts'
                          /\ SumRefcount(pages', SharersOf(pages', f)) = cow_refcounts'[f]]_vars

\* a fork-COW has downgraded a Mapped entry: it is COW and counts two sharers
C13_Witness ==
    \E t \in Threads : \E p \in LeafPagesOf(pages) :
        /\ th[t].pc = "release"
        /\ th[t].op.kind = "fork_cow"
        /\ pages[p].meta[0].status = "COW"
        /\ pages[p].meta[0].refcount = 2
        /\ pages[p].ptes[0].pfn \in DOMAIN cow_refcounts

\* C14: every change of an entry's status follows one of the eight edges of
\* the status state machine.
C14_StatusEdgesOnly ==
    [][\A p \in LeafPagesOf(pages) : \A i \in UsedIdx :
          pages'[p].meta[i].status # pages[p].meta[i].status =>
              <<pages[p].meta[i].status, pages'[p].meta[i].status>> \in StatusEdges]_vars

\* C15: round trip: after mmap(a, 4096, RW), a write fault on a and
\* munmap(a, 4096), a query of a under a cursor of its own reads Invalid.
C15_RoundTripInvalid ==
    \A t \in Threads :
        (th[t].op.kind = "query" /\ th[t].pc \in {"release", "reclaim", "done"}) =>
            /\ th[t].exc = "none"
            /\ th[t].status = "Invalid"

\* the query of a round trip whose fault bound a frame has returned Invalid
C15_Witness ==
    \E t \in Threads :
        /\ th[t].pc = "done"
        /\ th[t].op.kind = "query"
        /\ th[t].op.vaddr = 6000
        /\ th[t].status = "Invalid"
        /\ next_pfn = InitialPfn + 1
        /\ pages[TreeLeaf(pages, 6000)].version = 3

\* C16: an mmap over a page that is already PrivateAnon leaves its status
\* PrivateAnon, sets soft_perm to the prot of the call, leaves the PTE as it
\* was and allocates no frame.
C16_MmapIdempotent ==
    [][\A t \in Threads :
          BodyStep(t, "mmap") =>
              \A a \in RangePages(th[t].cursor.vaddr_start, th[t].cursor.vaddr_end) :
                  StatusAt(pages, a) = "PrivateAnon" =>
                      LET leaf == TreeLeaf(pages, a)
                          i == pte_index(a)
                      IN  /\ pages'[leaf].meta[i].status = "PrivateAnon"
                          /\ pages'[leaf].meta[i].soft_perm = th[t].op.arg
                          /\ pages'[leaf].ptes[i] = pages[leaf].ptes[i]
                          /\ next_pfn' = next_pfn]_vars

\* a second mmap with another prot has gone over the first page of a range
\* that was PrivateAnon
C16_Witness ==
    \E t \in Threads : \E p \in LeafPagesOf(pages) :
        /\ th[t].pc = "release"
        /\ th[t].op.kind = "mmap"
        /\ th[t].op.arg = 1
        /\ pages[p].meta[0] = [status |-> "PrivateAnon", soft_perm |-> 1, refcount |-> 0]
        /\ pages[p].meta[1] = [status |-> "PrivateAnon", soft_perm |-> 3, refcount |-> 0]
        /\ ~pages[p].ptes[0].present

\* C17: do_syscall_mmap changes no PTE and allocates no frame, and after it
\* every page of the range that read Invalid before reads PrivateAnon with
\* PTE.present false.
C17_LazyMmap ==
    [][\A t \in Threads :
          BodyStep(t, "mmap") =>
              /\ next_pfn' = next_pfn
              /\ \A p \in LeafPagesOf(pages) : pages'[p].ptes = pages[p].ptes
              /\ \A a \in RangePages(th[t].cursor.vaddr_start, th[t].cursor.vaddr_end) :
                    StatusAt(pages, a) = "Invalid" =>
                        /\ StatusAt(pages', a) = "PrivateAnon"
                        /\ ~pages'[TreeLeaf(pages', a)].ptes[pte_index(a)].present]_vars

\* C18: after do_syscall_mmap(v, len, prot) every page that intersects
\* [v, v + len) is PrivateAnon with soft_perm = prot, and the call returns v
\* rounded down to a page boundary.
C18_MmapCoversByteRange ==
    [][\A t \in Threads :
          BodyStep(t, "mmap") =>
              /\ th'[t].ret = AlignDown(th[t].op.vaddr)
              /\ \A a \in RangePages(AlignDown(th[t].op.vaddr),
                                     AlignUp(th[t].op.vaddr + th[t].op.length)) :
                    /\ StatusAt(pages', a) = "PrivateAnon"
                    /\ pages'[TreeLeaf(pages', a)].meta[pte_index(a)].soft_perm
                          = th[t].op.arg]_vars

\* C19: a fault on a PrivateAnon page returns true, binds the allocator's next
\* frame, which no entry holds yet, and leaves the entry Mapped, present and
\* writable; every other entry keeps its PTE and its metadata.
C19_FaultOnPrivateAnon ==
    [][\A t \in Threads :
          (BodyStep(t, "fault")
              /\ query(pages, th[t].cursor, th[t].op.vaddr) = "PrivateAnon") =>
              LET leaf == FirstLeaf(pages, th[t].cursor.locked_pages, 1)
                  i == pte_index(th[t].op.vaddr)
              IN  /\ th'[t].ret = 1
                  /\ pages'[leaf].ptes[i].pfn = next_pfn
                  /\ next_pfn' = next_pfn + 1
                  /\ SharersOf(pages, next_pfn) = {}
                  /\ pages'[leaf].ptes[i].present
                  /\ pages'[leaf].ptes[i].rw
                  /\ pages'[leaf].meta[i].status = "Mapped"
                  /\ \A p \in LeafPagesOf(pages) : \A j \in UsedIdx :
                        <<p, j>> # <<leaf, i>> =>
                            /\ pages'[p].ptes[j] = pages[p].ptes[j]
                            /\ pages'[p].meta[j] = pages[p].meta[j]]_vars

\* the first page of a two-page mmap has been touched: it is Mapped, the
\* second page is still PrivateAnon without a frame
C19_Witness ==
    \E t \in Threads : \E p \in LeafPagesOf(pages) :
        /\ th[t].pc = "release"
        /\ th[t].op.kind = "fault"
        /\ th[t].ret = 1
        /\ pages[p].meta[0].status = "Mapped"
        /\ pages[p].ptes[0].present /\ pages[p].ptes[0].rw
        /\ pages[p].meta[1].status = "PrivateAnon"
        /\ ~pages[p].ptes[1].present

\* C20: a write fault on a COW entry with frame f0 whose recorded refcount is
\* n > 1 returns true, binds a newly allocated frame other than f0, makes the
\* PTE writable, sets status PrivateAnon and metadata.refcount 1, and leaves
\* the recorded refcounts n - 1 for f0 and 1 for the new frame.
C20_CowCopy ==
    [][\A t \in Threads :
          LET leaf == FirstLeaf(pages, th[t].cursor.locked_pages, 1)
              i == pte_index(th[t].op.vaddr)
              f0 == pages[leaf].ptes[i].pfn
              n == CowGet(cow_refcounts, f0)
          IN  (BodyStep(t, "fault")
                  /\ th[t].op.arg = 1
                  /\ query(pages, th[t].cursor, th[t].op.vaddr) = "COW"
                  /\ is_valid(pages[leaf].ptes[i])
                  /\ n > 1) =>
                  /\ th'[t].ret = 1
                  /\ pages'[leaf].ptes[i].pfn = next_pfn
                  /\ next_pfn' = next_pfn + 1
                  /\ pages'[leaf].ptes[i].pfn # f0
                  /\ pages'[leaf].ptes[i].present
                  /\ pages'[leaf].ptes[i].rw
                  /\ pages'[leaf].meta[i].status = "PrivateAnon"
                  /\ pages'[leaf].meta[i].refcount = 1
                  /\ cow_refcounts'[f0] = n - 1
                  /\ cow_refcounts'[pages'[leaf].ptes[i].pfn] = 1]_vars

\* a shared frame has been copied: the writer holds the second frame, each
\* frame counts one sharer
C20_Witness ==
    \E t \in Threads : \E p \in LeafPagesOf(pages) :
        /\ th[t].pc = "release"
        /\ th[t].op.kind = "fault"
        /\ th[t].ret = 1
        /\ pages[p].ptes[0].pfn = InitialPfn + 1
        /\ pages[p].ptes[0].rw
        /\ pages[p].meta[0].status = "PrivateAnon"
        /\ DOMAIN cow_refcounts = {InitialPfn, InitialPfn + 1}
        /\ cow_refcounts[InitialPfn] = 1
        /\ cow_refcounts[InitialPfn + 1] = 1

\* C21: a write fault on a COW entry whose frame has recorded refcount 1
\* returns true, allocates no frame, keeps the frame of the PTE, flips PTE.rw
\* from false to true and sets status PrivateAnon with metadata.refcount 1.
C21_CowShortCircuit ==
    [][\A t \in Threads :
          LET leaf == FirstLeaf(pages, th[t].cursor.locked_pages, 1)
              i == pte_index(th[t].op.vaddr)
          IN  (BodyStep(t, "fault")
                  /\ th[t].op.arg = 1
                  /\ query(pages, th[t].cursor, th[t].op.vaddr) = "COW"
                  /\ is_valid(pages[leaf].ptes[i])
                  /\ CowGet(cow_refcounts, pages[leaf].ptes[i].pfn) = 1) =>
                  /\ th'[t].ret = 1
                  /\ next_pfn' = next_pfn
                  /\ pages'[leaf].ptes[i].pfn = pages[leaf].ptes[i].pfn
                  /\ ~pages[leaf].ptes[i].rw
                  /\ pages'[leaf].ptes[i].rw
                  /\ pages'[leaf].ptes[i].present
                  /\ pages'[leaf].meta[i].status = "PrivateAnon"
                  /\ pages'[leaf].meta[i].refcount = 1
                  /\ cow_refcounts' = cow_refcounts]_vars

\* the last sharer has written: it keeps the first frame, now writable, and
\* no second frame was allocated
C21_Witness ==
    \E t \in Threads : \E p \in LeafPagesOf(pages) :
        /\ th[t].pc = "release"
        /\ th[t].op.kind = "fault"
        /\ th[t].ret = 1
        /\ next_pfn = InitialPfn + 1
        /\ pages[p].ptes[0].pfn = InitialPfn
        /\ pages[p].ptes[0].rw
        /\ pages[p].meta[0].status = "PrivateAnon"
        /\ pages[p].meta[0].refcount = 1
        /\ InitialPfn \in DOMAIN cow_refcounts
        /\ cow_refcounts[InitialPfn] = 1

\* C22: handle_page_fault on an address whose status is Invalid returns false
\* and creates no page-table page: no step of the call changes the set of
\* pages linked under the root.
C22_InvalidFaultCreatesNothing ==
    [][\A t \in Threads :
          (th[t].op.kind = "fault" /\ StatusAt(pages, th[t].op.vaddr) = "Invalid") =>
              /\ Len(pages') = Len(pages)
              /\ Linked' = Linked
              /\ BodyStep(t, "fault") => th'[t].ret = 0]_vars

\* the frame the PTE of address a points to in pg
FrameAt(pg, a) == pg[TreeLeaf(pg, a)].ptes[pte_index(a)].pfn

\* worker t has returned from its last call
WorkerFinished(t) ==
    /\ th[t].pc = "done"
    /\ th[t].op.kind = "fault"
    /\ th[t].op.vaddr + PAGE_SIZE \notin WorkerPages(t)

\* the pages all workers fault
AllWorkerPages == UNION {WorkerPages(t) : t \in Threads}

\* C23: threads that concurrently mmap pairwise disjoint page-aligned ranges,
\* each inside one leaf (two of them in the same leaf), and write-fault every
\* page of their own range never see a call fail, and once all have finished
\* every page of every range is Mapped, the bound frames are pairwise
\* distinct, and as many frames were allocated as pages were faulted.
C23_DisjointRanges ==
    /\ \A t \in Threads :
          th[t].pc = "done" =>
              /\ th[t].exc = "none"
              /\ th[t].ret = IF th[t].op.kind = "mmap" THEN WorkerRange(t).base_addr ELSE 1
    /\ (\A t \in Threads : WorkerFinished(t)) =>
          /\ \A a \in AllWorkerPages : StatusAt(pages, a) = "Mapped"
          /\ \A a, b \in AllWorkerPages :
                a # b => FrameAt(pages, a) # FrameAt(pages, b)
          /\ next_pfn - InitialPfn = Cardinality(AllWorkerPages)

\* all workers have finished, and two of them worked in the same leaf
C23_Witness ==
    /\ \A t \in Threads : WorkerFinished(t)
    /\ TreeLeaf(pages, WorkerRange(1).base_addr) = TreeLeaf(pages, WorkerRange(2).base_addr)
    /\ \A a \in AllWorkerPages : StatusAt(pages, a) = "Mapped"

\* thread t holds a value allocate_pfn has returned to it
HasFrame(t) == th[t].pc = "done" /\ th[t].op.kind = "allocate_pfn"

\* C24: the frame allocator never returns the same frame twice. The call that
\* makes the k-th increment of next_pfn returns 0x1000 + k - 1: at its
\* increment the value it has read is still the counter's value; every value
\* returned lies below the counter, which never goes back; and the values two
\* threads hold at the same time differ.
C24_AllocatorDistinct ==
    /\ [][\A t \in Threads :
            (th[t].pc = "alloc_incr" /\ th'[t].pc = "alloc_exit") =>
                /\ th[t].ret = next_pfn
                /\ next_pfn' = next_pfn + 1]_vars
    /\ [][next_pfn' >= next_pfn]_vars
    /\ [](\A t \in Threads :
            HasFrame(t) => InitialPfn <= th[t].ret /\ th[t].ret < next_pfn)
    /\ [](\A t, u \in Threads :
            (t # u /\ HasFrame(t) /\ HasFrame(u)) => th[t].ret # th[u].ret)

\* two threads hold frames at the same time, each after an earlier call, and
\* the frames differ
C24_Witness ==
    /\ next_pfn >= InitialPfn + 3
    /\ \E t, u \in Threads :
          t # u /\ HasFrame(t) /\ HasFrame(u) /\ th[t].ret # th[u].ret

\* the hardware entry and the metadata of address a in pg, those of a fresh
\* entry when its leaf does not exist
PteAt(pg, a) ==
    IF TreeLeaf(pg, a) = NoPage THEN EmptyPTE ELSE pg[TreeLeaf(pg, a)].ptes[pte_index(a)]
MetaAt(pg, a) ==
    IF TreeLeaf(pg, a) = NoPage THEN EmptyMeta ELSE pg[TreeLeaf(pg, a)].meta[pte_index(a)]

\* C25: after do_syscall_munmap every page of the aligned range is Invalid
\* with a cleared PTE, soft_perm 0 and refcount 0, whatever it was before; an
\* entry that was already Invalid is not modified, and a leaf none of whose
\* entries in the range was mapped keeps its version.
C25_MunmapClears ==
    [][\A t \in Threads :
          BodyStep(t, "munmap") =>
              LET range == RangePages(th[t].vaddr_start, th[t].vaddr_end)
              IN  /\ \A a \in range :
                        /\ MetaAt(pages', a) = EmptyMeta
                        /\ PteAt(pages', a) = ClearPTE(PteAt(pages, a))
                  /\ \A a \in PageAddrs :
                        MetaAt(pages, a).status = "Invalid" =>
                            /\ MetaAt(pages', a) = MetaAt(pages, a)
                            /\ PteAt(pages', a) = PteAt(pages, a)
                  /\ \A q \in LeafPagesOf(pages) :
                        (\A a \in range :
                            TreeLeaf(pages, a) = q => MetaAt(pages, a).status = "Invalid")
                        => pages'[q].version = pages[q].version]_vars

\* C26: mark(status, soft_perm) writes the status and soft_perm of exactly the
\* entries whose addresses lie in the cursor's [start, end): each of them has
\* the new status and soft_perm afterwards, and no hardware PTE and no
\* metadata of an address outside [start, end) changes.
C26_MarkExactlyRange ==
    [][\A t \in Threads :
          BodyStep(t, "mmap") =>
              LET c == th[t].cursor
              IN  \A a \in PageAddrs :
                    /\ PteAt(pages', a) = PteAt(pages, a)
                    /\ InCursorRange(c, a) =>
                          /\ MetaAt(pages', a).status = "PrivateAnon"
                          /\ MetaAt(pages', a).soft_perm = th[t].op.arg
                    /\ ~InCursorRange(c, a) => MetaAt(pages', a) = MetaAt(pages, a)]_vars

\* the pages whose locks cursor c holds
PagesOf(c) == {c.locked_pages[k] : k \in 1..Len(c.locked_pages)}

\* thread t takes the step of cursor.query(arg), inside its scope or after its
\* own release(), with arg inside the cursor's range
QueryStep(t) ==
    /\ \/ th[t].pc = "body" /\ th[t].op.kind = "query"
       \/ th[t].pc = "released"
    /\ InCursorRange(th[t].cursor, th[t].op.arg)
    /\ th'[t].pc = "release"

\* C27: query(vaddr) returns the status of the entry that contains vaddr, and
\* Invalid when no leaf the cursor holds covers vaddr, also after release().
C27_QueryCoveredEntry ==
    [][\A t \in Threads :
          QueryStep(t) =>
              th'[t].status =
                  IF TreeLeaf(pages, th[t].op.arg) \in PagesOf(th[t].cursor)
                  THEN MetaAt(pages, th[t].op.arg).status
                  ELSE "Invalid"]_vars

\* thread t takes the step of its cursor operation with an address outside
\* the cursor's [start, end)
OutOfRangeStep(t) ==
    /\ \/ th[t].pc = "body" /\ th[t].op.kind \in {"query", "map", "unmap", "get"}
       \/ th[t].pc = "released"
    /\ ~(th[t].cursor.vaddr_start <= th[t].op.arg /\ th[t].op.arg < th[t].cursor.vaddr_end)
    /\ th'[t].pc = "release"

\* C28: query, map, unmap and get_pte_and_metadata called with an address
\* outside the cursor's [start, end) fail with an error and change no PTE, no
\* metadata slot and no version counter; the caller gets no result.
C28_OutOfRangeFails ==
    [][\A t \in Threads :
          OutOfRangeStep(t) =>
              /\ th'[t].exc = "AssertionError"
              /\ pages' = pages
              /\ th'[t].status = th[t].status /\ th'[t].ret = th[t].ret]_vars

\* an unmap of an address outside its cursor's range has been refused while
\* the entry of that address was mapped
C28_Witness ==
    \E t \in Threads :
        /\ th[t].pc = "release" /\ th[t].op.kind = "unmap"
        /\ th[t].exc = "AssertionError"
        /\ ~(th[t].cursor.vaddr_start <= th[t].op.arg /\ th[t].op.arg < th[t].cursor.vaddr_end)
        /\ MetaAt(pages, th[t].op.arg).status = "Mapped"

ReleaseOneStep(t) ==
    /\ th[t].pc = "dfs_release"
    /\ th[t].i < Len(th[t].cursor.locked_pages)
    /\ th'[t].i = th[t].i + 1

\* the release() at scope exit of a cursor that was released inside the scope
SecondRelease(t) ==
    /\ th[t].pc = "release"
    /\ th[t].op.kind = "dfs"
    /\ th'[t].pc = "reclaim"

\* C29: release() releases every lock the cursor holds, in reverse
\* acquisition order: each single release gives up the last acquired lock
\* still held and keeps the earlier ones, and at the end the thread holds
\* nothing, the list is empty and the flag set. It is idempotent: the second
\* release(), at scope exit, changes no lock and raises no error.
C29_ReleaseReverseIdempotent ==
    /\ [][\A t \in Threads :
            ReleaseOneStep(t) =>
                LET lp == th[t].cursor.locked_pages
                    k == Len(lp) - th[t].i
                IN  /\ pages[lp[k]].lock = t /\ pages'[lp[k]].lock = NoThread
                    /\ \A j \in 1..Len(lp) :
                          /\ j < k => pages'[lp[j]].lock = t
                          /\ j > k => pages[lp[j]].lock # t]_vars
    /\ [](\A t \in Threads :
            (th[t].pc = "release" /\ th[t].op.kind = "dfs") =>
                /\ HeldBy(t) = {}
                /\ th[t].cursor.locked_pages = <<>>
                /\ th[t].cursor.released)
    /\ [][\A t \in Threads :
            SecondRelease(t) =>
                /\ pages' = pages
                /\ th'[t].cursor = th[t].cursor
                /\ th'[t].exc = "none"]_vars

\* a cursor that held the interior page and both leaves has given up its
\* three locks one by one
C29_Witness ==
    \E t \in Threads :
        /\ th[t].pc = "dfs_release"
        /\ Len(th[t].cursor.locked_pages) = 3
        /\ th[t].i = 3
        /\ HeldBy(t) = {}

\* thread t is in lock(), between the walk and the yield of the cursor
InLock(t) == th[t].pc \in {"ensure", "lock_acquire", "validate"}

\* C31: lock() goes for the structural mutex only when its walk found an
\* absent link. A caller whose leaf exists goes from the walk straight to the
\* leaf's lock, and no step of it up to the cursor waits for, takes or
\* releases the structural mutex, whoever holds it; a caller waits for the
\* mutex only after a walk that found no leaf.
C31_MutexOnlyForAbsentLink ==
    [][\A t \in Threads :
          /\ (InLock(t) /\ th'[t] # th[t]) =>
                /\ structure_lock' = structure_lock
                /\ th'[t].pc = "create_wait" =>
                      (th[t].pc = "ensure" /\ LeafFor(th[t].vaddr_start) = NoPage)
          /\ (th[t].pc = "ensure" /\ th'[t] # th[t] /\ LeafFor(th[t].vaddr_start) # NoPage) =>
                th'[t].pc = "lock_acquire"
          /\ (structure_lock' = t /\ structure_lock # t) =>
                th[t].pc \in {"create_wait", "rm_wait"}]_vars

\* a caller has taken the lock of an existing leaf while another thread, in
\* remove_page_table, held the structural mutex: the remover has already
\* released that leaf's lock, and the caller holds it now
C31_Witness ==
    \E t, u \in Threads :
        /\ t # u
        /\ structure_lock = u
        /\ th[u].pc = "rm_defer"
        /\ th[t].pc = "validate"
        /\ th[t].pt_page = th[u].target
        /\ pages[th[t].pt_page].lock = t

\* C32: a page leaves the reclaimer queue only after it was unlinked, marked
\* stale and enqueued, and only once its grace interval has elapsed; pages
\* leave in enqueue order: what try_reclaim removes is a prefix of the queue,
\* and it stops at the first entry whose grace interval has not elapsed.
C32_ReclaimPrefixAfterGrace ==
    [][Len(queue') < Len(queue) =>
          LET n == Len(queue) - Len(queue')
          IN  /\ queue' = SubSeq(queue, n + 1, Len(queue))
              /\ \A k \in 1..n :
                    /\ now - queue[k][1] >= grace_period
                    /\ pages[queue[k][2]].is_stale
                    /\ queue[k][2] \notin Linked
              /\ Len(queue') > 0 => now - queue'[1][1] < grace_period]_vars

\* try_reclaim has taken pages from the queue and left a younger one in it
C32_Witness ==
    /\ Len(queue) > 0
    /\ Cardinality(StalePages) > Len(queue)
    /\ now - queue[1][1] < grace_period

\* C33: every operation that changes a PTE or a metadata slot of a page
\* increments that page's version counter, with the page's lock held; the
\* version never decreases.
C33_VersionOnEveryChange ==
    [][\A q \in PageIds :
          /\ pages'[q].version >= pages[q].version
          /\ (pages'[q].ptes # pages[q].ptes \/ pages'[q].meta # pages[q].meta) =>
                /\ pages'[q].version > pages[q].version
                /\ pages[q].lock # NoThread]_vars

\* C34: do_fork_cow changes exactly the pages of its range that are Mapped
\* with a valid PTE: the status becomes COW, rw false, the frame's global
\* refcount goes up by one, to 2, and is copied into metadata.refcount. Every
\* other page, in the range or not, and every other refcount stay as they
\* were, so a second do_fork_cow on the same range changes nothing.
C34_ForkCowExactlyMapped ==
    [][\A t \in Threads :
          BodyStep(t, "fork_cow") =>
              LET range == RangePages(th[t].vaddr_start, th[t].vaddr_end)
                  Shared(a) == /\ a \in range
                               /\ MetaAt(pages, a).status = "Mapped"
                               /\ is_valid(PteAt(pages, a))
                  frames == {PteAt(pages, a).pfn : a \in {b \in PageAddrs : Shared(b)}}
              IN  /\ \A a \in PageAddrs \cup range :
                        IF Shared(a)
                        THEN /\ MetaAt(pages', a) =
                                    [MetaAt(pages, a) EXCEPT !.status = "COW", !.refcount = 2]
                             /\ PteAt(pages', a) = [PteAt(pages, a) EXCEPT !.rw = FALSE]
                             /\ CowGet(cow_refcounts', PteAt(pages, a).pfn) = 2
                        ELSE /\ MetaAt(pages', a) = MetaAt(pages, a)
                             /\ PteAt(pages', a) = PteAt(pages, a)
                  /\ \A f \in InitialPfn..next_pfn :
                        f \notin frames => CowGet(cow_refcounts', f) = CowGet(cow_refcounts, f)
                  /\ fork_cow(pages', cow_refcounts', th[t].cursor,
                              th[t].vaddr_start, th[t].vaddr_end)
                        = [pages |-> pages', cow |-> cow_refcounts']]_vars

\* the fault of thread t is one handle_page_fault refuses: on an Invalid
\* page, a read of a COW page without a present PTE, or a write to a Mapped
\* page with a read-only PTE
RefusedFault(t) ==
    LET a == th[t].op.vaddr
        st == MetaAt(pages, a).status
        is_write == th[t].op.arg = 1
    IN  \/ st = "Invalid"
        \/ st = "COW" /\ ~is_write /\ ~PteAt(pages, a).present
        \/ st = "Mapped" /\ is_write /\ ~PteAt(pages, a).rw

\* the fault of thread t needs nothing done: a read of a COW page with a
\* present PTE, or any other access to a Mapped page
NothingToDoFault(t) ==
    LET a == th[t].op.vaddr
        st == MetaAt(pages, a).status
        is_write == th[t].op.arg = 1
    IN  \/ st = "COW" /\ ~is_write /\ PteAt(pages, a).present
        \/ st = "Mapped" /\ ~(is_write /\ ~PteAt(pages, a).rw)

\* C35: handle_page_fault returns false for a refused fault and true for one
\* that needs nothing done, and in both cases changes no PTE, no metadata
\* slot and no refcount, and allocates no frame.
C35_FaultWithoutEffect ==
    [][\A t \in Threads :
          (BodyStep(t, "fault") /\ (RefusedFault(t) \/ NothingToDoFault(t))) =>
              /\ th'[t].ret = IF RefusedFault(t) THEN 0 ELSE 1
              /\ pages' = pages
              /\ cow_refcounts' = cow_refcounts
              /\ next_pfn' = next_pfn]_vars

\* a write fault on a Mapped page with a read-only PTE has been refused
C35_Witness ==
    \E t \in Threads :
        /\ th[t].pc = "release" /\ th[t].op.kind = "fault" /\ th[t].op.arg = 1
        /\ th[t].ret = 0
        /\ MetaAt(pages, th[t].op.vaddr).status = "Mapped"
        /\ PteAt(pages, th[t].op.vaddr).present
        /\ ~PteAt(pages, th[t].op.vaddr).rw

\* thread t is after the second leaf: its lock() is for an address of it
OnSecondLeaf(t) ==
    /\ th[t].op.kind \in {"mmap", "fault"}
    /\ th[t].vaddr_start >= SecondLeaf

\* C36: when several threads call lock() for the same not-yet-existing leaf,
\* with remove_page_table running on another leaf, one leaf page is installed
\* in the slot and stays: once a leaf is linked for the address it is never
\* replaced, every page a caller goes on to lock or holds in its cursor is that
\* linked leaf, and no further leaf page is ever created for the slot.
C36_OneLeafInstalled ==
    /\ [][LeafFor(SecondLeaf) # NoPage => LeafFor(SecondLeaf)' = LeafFor(SecondLeaf)]_vars
    /\ [](\A t \in Threads :
            (OnSecondLeaf(t) /\ th[t].pc \in {"lock_acquire", "validate", "body"}) =>
                /\ th[t].pt_page = LeafFor(SecondLeaf)
                /\ th[t].pc = "body" => th[t].cursor.locked_pages = <<LeafFor(SecondLeaf)>>)
    /\ [][\A t \in Threads :
            (OnSecondLeaf(t) /\ th[t].pc = "create" /\ th'[t].pc = "lock_acquire"
                /\ LeafFor(SecondLeaf) # NoPage) => Len(pages') = Len(pages)]_vars

\* two callers found the second leaf absent; one has installed it and holds
\* it in its cursor, the other is still on its way to create it
C36_Witness ==
    \E t, u \in Threads :
        /\ t # u
        /\ OnSecondLeaf(t) /\ OnSecondLeaf(u)
        /\ th[u].pc \in {"create_wait", "create"}
        /\ th[t].pc = "body"
        /\ th[t].cursor.locked_pages = <<LeafFor(SecondLeaf)>>

\* C37: in every reachable state no page linked under the root is stale, and
\* every page in the reclaimer queue is stale, not linked under the root, and
\* in the queue exactly once.
C37_StaleIffDetachedAndQueuedOnce ==
    /\ \A p \in Linked \cup {Root} : ~pages[p].is_stale
    /\ \A k \in 1..Len(queue) :
          /\ pages[queue[k][2]].is_stale
          /\ queue[k][2] \notin Linked \cup {Root}
          /\ \A j \in 1..Len(queue) : j # k => queue[j][2] # queue[k][2]

\* the queue holds three detached leaves while a new leaf is linked
C37_Witness ==
    /\ Len(queue) >= 3
    /\ LeafFor(0) # NoPage

\* thread t is inside a call
InCall(t) == th[t].pc \notin {"idle", "done"}

\* C38: deadlock freedom. Under fair scheduling every call of any thread
\* eventually returns, whatever the other threads run among do_syscall_mmap,
\* do_syscall_munmap, handle_page_fault, do_fork_cow and remove_page_table.
C38_EveryCallReturns ==
    \A t \in Threads : InCall(t) ~> (th[t].pc = "done")

\* a chain of waiting: a remover holds the structural mutex and waits for the
\* lock of a leaf that a caller holds in its scope, while that caller's call
\* is still running
C38_Witness ==
    \E t, u \in Threads :
        /\ t # u
        /\ structure_lock = u
        /\ th[u].pc = "rm_lock"
        /\ pages[th[u].target].lock = t
        /\ th[t].pc = "body"

\* C39: handle_page_fault allocates a frame only for an entry whose PTE is
\* not present, or for a COW entry whose frame has global refcount > 1: a
\* fault never replaces the frame of a page whose PTE is present and whose
\* frame is not shared.
C39_FaultKeepsBoundFrame ==
    [][\A t \in Threads :
          BodyStep(t, "fault") =>
              LET a == th[t].op.vaddr
                  pte == PteAt(pages, a)
                  shared == MetaAt(pages, a).status = "COW"
                               /\ CowGet(cow_refcounts, pte.pfn) > 1
              IN  /\ next_pfn' # next_pfn => (~pte.present \/ shared)
                  /\ (pte.present /\ ~shared) => PteAt(pages', a).pfn = pte.pfn]_vars

\* C40: a fault on a PrivateAnon page installs a writable PTE and sets
\* soft_perm to RWX (7), for read faults and write faults alike and whatever
\* prot was passed to mmap: the soft_perm that mmap recorded is overwritten.
C40_FaultMapsWritableRWX ==
    [][\A t \in Threads :
          (BodyStep(t, "fault") /\ MetaAt(pages, th[t].op.vaddr).status = "PrivateAnon") =>
              LET a == th[t].op.vaddr
              IN  /\ th'[t].ret = 1
                  /\ PteAt(pages', a).present /\ PteAt(pages', a).rw
                  /\ MetaAt(pages', a).status = "Mapped"
                  /\ MetaAt(pages', a).soft_perm = 7]_vars

\* a read fault has mapped a PrivateAnon page writable with soft_perm 7 while
\* its neighbour, marked by the same mmap, still carries that mmap's soft_perm
C40_Witness ==
    \E t \in Threads :
        /\ th[t].pc = "release" /\ th[t].op.kind = "fault" /\ th[t].op.arg = 0
        /\ th[t].status = "PrivateAnon"
        /\ PteAt(pages, th[t].op.vaddr).rw
        /\ MetaAt(pages, th[t].op.vaddr).soft_perm = 7
        /\ MetaAt(pages, PAGE_SIZE).status = "PrivateAnon"
        /\ MetaAt(pages, PAGE_SIZE).soft_perm = 3

====
